---------------------------- MODULE Spec2Model ----------------------------
(***************************************************************************)
(* Model of the obsidian-ai-transcriber pipeline:                          *)
(*   - TranscriberService (services/transcriber.ts): transcribe,           *)
(*     withRetries, sleep, mapWithConcurrency, mergeAbortSignals, the      *)
(*     OpenAI chunk worker and the preprocessing checkpoints;              *)
(*   - EditorService (services/editor.ts): editWithTwoStageStreaming,      *)
(*     formatTranscriptStreaming, generateContentStream, generateContent;  *)
(*   - the plugin's task controller (main.ts): beginTask, endTask,         *)
(*     cancelActiveTask, processAudioBlob, the edit command.               *)
(*                                                                         *)
(* JavaScript runs one callback at a time, so an action is the code that   *)
(* runs between two real suspension points (a network call, a timer, a     *)
(* worker message, a file operation).  A request issued with an            *)
(* AbortSignal settles by rejecting with an abort error once that signal   *)
(* is aborted (the contract of fetch and of both provider SDKs).           *)
(***************************************************************************)
EXTENDS Naturals, Integers, Sequences, FiniteSets, TLC

(***************************************************************************)
(* Bounds of the model.                                                    *)
(***************************************************************************)
MaxChunks == 3
MaxTextChunks == 2
MaxDeltas == 2
MaxCancelCalls == 2
MaxRejected == 1

(***************************************************************************)
(* Program constants.                                                      *)
(***************************************************************************)
DEFAULT_TRANSCRIBE_CONCURRENCY == 3
\* the pool size transcribeWithGemini passes to mapWithConcurrency
GEMINI_TRANSCRIBE_CONCURRENCY == 2
\* 10 * 60 * 1000
GEMINI_FILE_PROCESSING_TIMEOUT_MS == 600000
\* waitForGeminiFileReady: sleep(1000, signal)
PollIntervalMs == 1000
DefaultMaxRetries == 3
RetryBaseDelayMs == 500
MAX_RETRIES == 3
EditorRetryBaseDelayMs == 1000

(***************************************************************************)
(* Text: a string is a sequence of one-character strings.                  *)
(***************************************************************************)
IsWhitespace(c) == c \in {" ", "\n"}

RECURSIVE TrimStart(_)
TrimStart(s) ==
  IF s /= <<>> /\ IsWhitespace(Head(s)) THEN TrimStart(Tail(s)) ELSE s

RECURSIVE TrimEnd(_)
TrimEnd(s) ==
  IF s /= <<>> /\ IsWhitespace(s[Len(s)])
    THEN TrimEnd(SubSeq(s, 1, Len(s) - 1))
    ELSE s

\* String.prototype.trim
TrimText(s) == TrimEnd(TrimStart(s))

\* Array.prototype.join(sep) over an array given as a function on 0..n-1
RECURSIVE JoinFrom(_, _, _, _)
JoinFrom(arr, n, i, sep) ==
  IF i >= n THEN <<>>
  ELSE IF i = n - 1 THEN arr[i]
  ELSE arr[i] \o sep \o JoinFrom(arr, n, i + 1, sep)

Join(arr, n, sep) == JoinFrom(arr, n, 0, sep)

\* The text the chunk at `index` is transcribed to, when the provider
\* returns one.
ChunkText(index) ==
  CASE index % 3 = 0 -> <<" ", ToString(index)>>
    [] index % 3 = 1 -> <<ToString(index), "\n">>
    [] OTHER         -> <<ToString(index), " ", ToString(index)>>

(***************************************************************************)
(* Errors.  `kind` abstracts the error's name and message; `chunk` is the  *)
(* 1-based chunk number an error message names (0: none).                  *)
(***************************************************************************)
MkError(kind, chunk) == [kind |-> kind, chunk |-> chunk]

NoError == MkError("none", 0)

\* createAbortError: DOMException('The operation was aborted.', 'AbortError')
AbortError == MkError("AbortError", 0)

\* A provider or network failure whose message does not contain "aborted".
ProviderError == MkError("ProviderError", 0)

\* A provider or network failure whose message contains "aborted"
\* (for instance a connection that the peer aborted).
AbortedMessageError == MkError("AbortedMessage", 0)

\* isAbortError: name === 'AbortError' || message.toLowerCase().includes('aborted')
isAbortError(e) == e.kind \in {"AbortError", "AbortedMessage"}

\* withRetries' final throw: `${label} failed after ${maxRetries} attempts: ...`
RetriesExhaustedError(chunk) == MkError("RetriesExhausted", chunk)

\* 500 * Math.pow(2, attempt - 1)
BackoffDelayMs(attempt) == RetryBaseDelayMs * (2 ^ (attempt - 1))

\* A variant of ShouldRetry with an off-by-one loop bound.
RetryOnceMore(attempt, maxRetries) == attempt <= maxRetries

\* withRetries' loop bound: a failed attempt is followed by another one
ShouldRetry(attempt, maxRetries) == attempt < maxRetries

\* A variant of ConfigMissing that accepts an empty credential.
ConfigNeverMissing(apiKey) == FALSE

\* if (!settings.apiKey) throw new Error('... API key is not configured')
ConfigMissing(apiKey) == ~apiKey

\* new Error('Transcriber API key is not configured') and the editor's
\* new Error('Editor API key is not configured')
ConfigError == MkError("ConfigError", 0)

\* A variant of throwIfAborted that never throws.
NeverThrows(signalAborted) == FALSE

\* throwIfAborted(signal): TRUE when it throws the abort error
throwIfAborted(signalAborted) == signalAborted

\* A variant of mergeAbortSignals that forgets the local controller.
OnlyExternalSignal(external, local) == external

\* mergeAbortSignals: the merged signal is aborted as soon as one of its
\* inputs is, for as long as its listeners are attached
mergeAbortSignals(external, local) == external \/ local

Min(a, b) == IF a < b THEN a ELSE b
Max(a, b) == IF a > b THEN a ELSE b

\* Math.max(1, Math.min(concurrency, items.length || 1))
LimitedConcurrency(concurrency, n) ==
  Max(1, Min(concurrency, IF n = 0 THEN 1 ELSE n))


(***************************************************************************)
(* State.                                                                  *)
(***************************************************************************)
VARIABLES
  request,          \* the entry point being called: its synchronous
                    \* prefix has not run yet ("none": no call pending)
  abortedAtCall,    \* the signal was already aborted when the last entry
                    \* point was called
  aborted,          \* options.signal.aborted: the run's shared abort signal
  netCalls,         \* number of provider requests issued so far
  status,           \* the status bar's text (updateStatus)
  progressNotice,   \* the progress notice's message (NoNotice: null)
  emitted,          \* emitProgress: the stage of the latest snapshot of the
                    \* run and how many `done` snapshots it emitted
  tApiKey,          \* settings.apiKey of the transcriber is non-empty
  tProvider,        \* settings.provider of the transcriber
  audioChunks,      \* number of chunks preprocessing carves from the blob
  workerAvailable,  \* typeof Worker !== 'undefined'
  emptyBodyChunk,   \* index of the chunk the provider answers with an empty
                    \* body (-1: none)
  faultyChunk,      \* Gemini: index of the chunk whose requests meet provider
                    \* faults and whose file is slow to process (-1: none)
  forceWavPreprocess, \* transcribeWithGemini: preferQualityWav or a blob
                    \* above DIRECT_GEMINI_UPLOAD_MAX_BYTES
  rawData,          \* processLocally: rawData, as sample values
  splitPc,          \* processResampledData: "entry" at its call, "worker"
                    \* awaiting processWithWorker, "rejected" once it threw;
                    \* processLocally: "trim" before trimSilence, "split" in
                    \* splitAtSilenceToWav; "none" when it is not called
  prep,             \* processResampledData: options.signal.aborted, the
                    \* Worker, finish()'s settled flag, how often finish()
                    \* settled the promise, what the worker path ended with,
                    \* the error thrown
  pcm,              \* splitAtSilenceToWav: data, as sample values
  opts,             \* splitAtSilenceToWav: maxSamples, minChunkSamples,
                    \* silenceWindowSamples, searchRangeSamples
  startSample,      \* splitAtSilenceToWav: startSample
  segments,         \* splitAtSilenceToWav: the sample ranges of chunks
  tpc,              \* position of the transcribe() call
  tErr,             \* the error transcribe() rejected with
  tResult,          \* the text transcribe() resolved with
  nChunks,          \* chunks.length handed to mapWithConcurrency
  localAborted,     \* localAbortController.signal.aborted
  mergedAborted,    \* merged.signal.aborted
  nextIndex,        \* mapWithConcurrency: nextIndex
  firstError,       \* mapWithConcurrency: firstError (NoError: undefined)
  results,          \* mapWithConcurrency: results, by chunk index
  runners,          \* the pool's runners: position, chunk index, attempt
  attempts,         \* per chunk index: operation() invocations so far
  delays,           \* per chunk index: the backoff delays slept so far
  completedChunks,  \* transcribeWithOpenAI: completedChunks
  completionOrder,  \* the chunk indexes in the order their calls succeeded
  eApiKey,          \* settings.apiKey of the editor is non-empty
  eChunks,          \* number of text chunks splitTextIntoChunks returns
  splitter,         \* splitTextIntoChunks: position, the paragraphs still to
                    \* visit, currentChunk, chunks, the text and maxLength
  writer,           \* streamEditToFile and its stream file writer: position,
                    \* latestContent, timer, the inFlight chain, the
                    \* updateText calls in flight, the file's content, how
                    \* many updates of the chain reached the file
  abortedStreamReturns, \* the SDK's stream iterator returns (instead of
                    \* throwing) when its request is aborted
  ed,               \* the editWithTwoStageStreaming call: position and locals
  activeTaskController, \* 0: null; otherwise the controller beginTask created
  running,          \* number of command handlers between beginTask and endTask
  task,             \* the running handler: command, position, options
  notices,          \* notices shown since the last beginTask, by text
  outcome,          \* how the last handler ended
  cancelCalls       \* number of cancelActiveTask invocations

callVars == <<request, abortedAtCall>>
sigVars == <<aborted, netCalls>>
uiVars == <<status, progressNotice, emitted>>
splitVars == <<rawData, splitPc, prep, pcm, opts, startSample, segments>>
tInputs == <<tApiKey, tProvider, audioChunks, workerAvailable, emptyBodyChunk,
             faultyChunk, forceWavPreprocess, splitVars>>
tCallVars == <<tpc, tErr, tResult>>
mapVars == <<nChunks, localAborted, mergedAborted, nextIndex, firstError,
             results, runners, attempts, delays, completedChunks,
             completionOrder>>
tVars == <<tInputs, tCallVars, mapVars>>

eInputs == <<eApiKey, eChunks, abortedStreamReturns, splitter, writer>>
eVars == <<eInputs, ed>>

mainVars == <<activeTaskController, running, task, notices, outcome,
              cancelCalls>>

\* what the transcriber's actions and the editor's actions leave alone
notT == <<eVars, mainVars>>
notE == <<tVars, mainVars>>

vars == <<callVars, sigVars, uiVars, tVars, eVars, mainVars>>

(***************************************************************************)
(* The status bar and the progress notice, and the progress callbacks that *)
(* write them.  A text is <<key, current, total>>.                         *)
(***************************************************************************)
StatusText(key) == <<key, 0, 0>>

\* this.progressNotice === null
NoNotice == StatusText("none")

\* updateStatus(message); updateProgressNotice(message)
UpdateUi(message) ==
  /\ status' = message
  /\ progressNotice' = message
  /\ emitted' = emitted

\* no snapshot emitted yet
NoEmission == [last |-> "none", done |-> 0]

UiInit ==
  /\ status = StatusText("statusIdle")
  /\ progressNotice = NoNotice
  /\ emitted = NoEmission

\* a TranscriptionProgress; 0 stands for a field that is not set
Progress(stage, currentChunk, totalChunks, completed) ==
  [stage |-> stage, currentChunk |-> currentChunk,
   totalChunks |-> totalChunks, completedChunks |-> completed]

\* an EditProgress; 0 stands for a field that is not set
EditProgress(stage, currentChunk, totalChunks) ==
  [stage |-> stage, currentChunk |-> currentChunk, totalChunks |-> totalChunks]

getTranscriptionProgressText(progress) ==
  IF progress.stage = "done" THEN StatusText("statusTranscribing")
  ELSE IF /\ progress.stage \in {"transcribe", "upload", "processing"}
          /\ progress.totalChunks > 0
    THEN <<"statusTranscribingProgress",
           IF progress.completedChunks > 0
             THEN progress.completedChunks
             ELSE progress.currentChunk,
           progress.totalChunks>>
  ELSE StatusText("statusTranscribing")

getEditProgressText(progress) ==
  IF progress.stage = "summary" THEN StatusText("statusEditingSummary")
  ELSE IF progress.stage = "transcript"
    THEN <<"statusEditingTranscript", progress.currentChunk,
           progress.totalChunks>>
  ELSE StatusText("statusEditing")

\* the onProgress callback the plugin passes to transcribe()
OnTranscriptionProgress(progress) ==
  /\ status' = getTranscriptionProgressText(progress)
  /\ progressNotice' = getTranscriptionProgressText(progress)
  /\ emitted' = [last |-> progress.stage,
                 done |-> emitted.done
                            + (IF progress.stage = "done" THEN 1 ELSE 0)]

Runners == 1 .. DEFAULT_TRANSCRIBE_CONCURRENCY
ChunkIndexes == 0 .. (MaxChunks - 1)

\* a runner: its position, the chunk it holds, the attempt it is at, the
\* error of that chunk's latest failed attempt and the error it threw; and of
\* the Gemini worker: the operation withRetries runs, whether uploadedFile
\* has a name, the file state last observed, Date.now() - startedAt when it
\* was observed, the text to return, and whether the delete was warned about
IdleRunner ==
  [pc |-> "none", index |-> 0, attempt |-> 0, failure |-> NoError,
   err |-> NoError, stage |-> "chunk", handle |-> FALSE,
   fileState |-> "none", elapsed |-> 0, text |-> <<>>, warned |-> FALSE]

Runner(pc, index, attempt) ==
  [IdleRunner EXCEPT !.pc = pc, !.index = index, !.attempt = attempt]

\* the Gemini worker of a chunk at a request of withRetries
GRunner(pc, index, attempt) ==
  [IdleRunner EXCEPT !.pc = pc, !.stage = pc, !.index = index,
                     !.attempt = attempt]

\* the worker's steps up to its first request
WorkerStart(provider, index) ==
  IF provider = "gemini" THEN GRunner("upload", index, 1)
  ELSE Runner("call", index, 1)

\* the stage of the progress the worker emits first
WorkerStartStage(provider) ==
  IF provider = "gemini" THEN "upload" ELSE "transcribe"

\* new Array(items.length): a hole joins as the empty string
EmptyResults == [i \in ChunkIndexes |-> <<>>]

TInit ==
  /\ tpc = "idle"
  /\ tErr = NoError
  /\ tResult = <<>>
  /\ nChunks = 0
  /\ localAborted = FALSE
  /\ mergedAborted = FALSE
  /\ nextIndex = 0
  /\ firstError = NoError
  /\ results = EmptyResults
  /\ runners = [r \in Runners |-> IdleRunner]
  /\ attempts = [i \in ChunkIndexes |-> 0]
  /\ delays = [i \in ChunkIndexes |-> <<>>]
  /\ completedChunks = 0
  /\ completionOrder = <<>>

\* the body of the provider's response for the chunk at `index`
ResponseBody(index) ==
  IF index = emptyBodyChunk THEN <<>> ELSE ChunkText(index)

\* no call of splitAtSilenceToWav
\* no worker, nothing settled, nothing thrown
IdlePrep ==
  [aborted |-> FALSE, worker |-> "none", settled |-> FALSE, settlements |-> 0,
   late |-> 0, outcome |-> "none", err |-> NoError]

NoSplit ==
  /\ rawData = <<>>
  /\ splitPc = "none"
  /\ prep = IdlePrep
  /\ pcm = <<>>
  /\ opts = [maxSamples |-> 1, minChunkSamples |-> 1,
             silenceWindowSamples |-> 1, searchRangeSamples |-> 1,
             trimLongSilence |-> FALSE, minSilenceTrimSamples |-> 0]
  /\ startSample = 0
  /\ segments = <<>>

(***************************************************************************)
(* splitAtSilenceToWav and findSilenceSplitPoint.  A sample is its value   *)
(* in hundredths; sample j of the code is element j + 1 of the sequence.   *)
(***************************************************************************)
\* the longest sample buffer given to splitAtSilenceToWav
MaxSamples == 11

\* the longest sample buffer given to trimSilence
MaxRawSamples == 6

\* SILENCE_THRESHOLD (0.01), in hundredths
SILENCE_THRESHOLD == 1

\* the sample values: loud of either sign, at the threshold, zero
SampleLevels == {-2, 0, 1, 2}

\* the sample values of the buffers that are only split: loud, and silent at
\* the threshold
SplitLevels == {-2, 1}

SampleBuffers == UNION {[1 .. n -> SplitLevels] : n \in 0 .. MaxSamples}

RawBuffers == UNION {[1 .. n -> SampleLevels] : n \in 0 .. MaxRawSamples}

\* The options in samples.  The code derives them from its constants
\* (0.3 s window, 1 s floor, 5 s range, 600 s or 900 s maximum, at 16 kHz): the
\* window is no longer than the range, and window, range and floor together
\* fit in the maximum.
SplitOptions ==
  {o \in [maxSamples : {4, 5, 6}, minChunkSamples : {1, 2},
          silenceWindowSamples : {1, 2}, searchRangeSamples : {1, 2},
          trimLongSilence : {FALSE}, minSilenceTrimSamples : {0}] :
     /\ o.silenceWindowSamples <= o.searchRangeSamples
     /\ o.silenceWindowSamples + o.searchRangeSamples + o.minChunkSamples
          <= o.maxSamples}

\* the options of preprocess(), trimLongSilence with a minimum silence longer
\* than the window, and of preprocessForGemini(), without trimming
TrimOptions ==
  {o \in [maxSamples : {4}, minChunkSamples : {2}, silenceWindowSamples : {1},
          searchRangeSamples : {1}, trimLongSilence : BOOLEAN,
          minSilenceTrimSamples : {0, 2, 3}] :
     o.trimLongSilence <=> o.minSilenceTrimSamples > 0}

(***************************************************************************)
(* The long-chunk policy on a 25-minute tone with three 3-second gaps.     *)
(* Durations are in tenths of a second; ScenarioSampleRate stands for the  *)
(* 16000 samples per second of TARGET_SAMPLE_RATE.                         *)
(***************************************************************************)
ScenarioSampleRate == 10
SILENCE_WINDOW_SECONDS == 3
SEARCH_RANGE_SECONDS == 50
MIN_CHUNK_SECONDS == 10
MAX_DURATION_SECONDS == 9000

\* Math.floor(seconds * targetSampleRate)
Samples(tenths) == (tenths * ScenarioSampleRate) \div 10

\* how long before its minute mark a gap starts: it starts at the mark, is
\* centred on it, or ends at it
GapLeads == {0, 15, 30}

\* sample j (from 0) lies in one of the 3-second gaps at minutes 8, 16, 22
InGap(j, lead) ==
  \E minute \in {8, 16, 22} :
    /\ Samples(minute * 600 - lead) <= j
    /\ j < Samples(minute * 600 - lead) + Samples(30)

\* 25 minutes of a loud tone with the three gaps
ScenarioBuffer(lead) ==
  [j \in 1 .. Samples(15000) |->
     IF InGap(j - 1, lead) THEN 0 ELSE IF j % 2 = 0 THEN 2 ELSE -2]

\* A variant of ScenarioOptions whose search range reaches the next gap.
WideSearchOptions ==
  [maxSamples |-> Samples(MAX_DURATION_SECONDS),
   minChunkSamples |-> Samples(MIN_CHUNK_SECONDS),
   silenceWindowSamples |-> Samples(SILENCE_WINDOW_SECONDS),
   searchRangeSamples |-> Samples(13 * SEARCH_RANGE_SECONDS),
   trimLongSilence |-> FALSE, minSilenceTrimSamples |-> 0]

\* the options preprocessForGemini passes, as sample counts
ScenarioOptions ==
  [maxSamples |-> Samples(MAX_DURATION_SECONDS),
   minChunkSamples |-> Samples(MIN_CHUNK_SECONDS),
   silenceWindowSamples |-> Samples(SILENCE_WINDOW_SECONDS),
   searchRangeSamples |-> Samples(SEARCH_RANGE_SECONDS),
   trimLongSilence |-> FALSE, minSilenceTrimSamples |-> 0]

\* the scenario, for each placement of the gaps
ScenarioInputs == {<<ScenarioBuffer(lead), ScenarioOptions>> : lead \in GapLeads}

\* Math.abs
Abs(x) == IF x < 0 THEN 0 - x ELSE x

\* not (Math.abs(data[j]) > silenceThreshold)
IsSilent(data, j) == ~(Abs(data[j + 1]) > SILENCE_THRESHOLD)

\* the inner loops: every sample j with from <= j < to is silent
WindowSilent(data, from, to) ==
  \A j \in from .. (to - 1) : IsSilent(data, j)

\* null
NoSplitPoint == -1

\* A variant of BackwardCut that cuts where the silent window ends.
BackwardCutAtWindowEnd(i, silenceWindowSamples) == i

\* return i - silenceWindowSamples: the first sample of the silent window
BackwardCut(i, silenceWindowSamples) == i - silenceWindowSamples

\* A variant of findSilenceSplitPoint that searches forward first.
findSilenceForwardFirst(data, desiredSplit, totalSamples, silenceWindowSamples, searchRangeSamples) ==
  LET backwardStart == Max(silenceWindowSamples,
                           desiredSplit - searchRangeSamples)
      backward == {i \in backwardStart .. desiredSplit :
                     WindowSilent(data, i - silenceWindowSamples, i)}
      forwardEnd == Min(totalSamples, desiredSplit + searchRangeSamples)
      forward == {i \in desiredSplit .. (forwardEnd - 1) :
                    WindowSilent(data, i,
                                 Min(i + silenceWindowSamples, totalSamples))}
  IN IF forward /= {}
       THEN CHOOSE i \in forward : \A k \in forward : i <= k
     ELSE IF backward /= {}
       THEN (CHOOSE i \in backward : \A k \in backward : k <= i)
              - silenceWindowSamples
     ELSE NoSplitPoint

\* the backward search, then the forward search, then null
findSilenceSplitPoint(data, desiredSplit, totalSamples, silenceWindowSamples, searchRangeSamples) ==
  LET backwardStart == Max(silenceWindowSamples,
                           desiredSplit - searchRangeSamples)
      backward == {i \in backwardStart .. desiredSplit :
                     WindowSilent(data, i - silenceWindowSamples, i)}
      forwardEnd == Min(totalSamples, desiredSplit + searchRangeSamples)
      forward == {i \in desiredSplit .. (forwardEnd - 1) :
                    WindowSilent(data, i,
                                 Min(i + silenceWindowSamples, totalSamples))}
  IN IF backward /= {}
       THEN BackwardCut(CHOOSE i \in backward : \A k \in backward : k <= i,
                        silenceWindowSamples)
     ELSE IF forward /= {}
       THEN CHOOSE i \in forward : \A k \in forward : i <= k
     ELSE NoSplitPoint

\* A variant of SplitEnd that takes every split point found.
SplitEndAnyCut(data, o, start) ==
  LET totalSamples == Len(data)
      endSample == Min(start + o.maxSamples, totalSamples)
      splitPoint == findSilenceSplitPoint(data, endSample, totalSamples,
                                          o.silenceWindowSamples,
                                          o.searchRangeSamples)
  IN IF endSample < totalSamples /\ splitPoint /= NoSplitPoint
       THEN splitPoint
       ELSE endSample

\* endSample of one pass of the loop
SplitEnd(data, o, start) ==
  LET totalSamples == Len(data)
      endSample == Min(start + o.maxSamples, totalSamples)
      splitPoint == findSilenceSplitPoint(data, endSample, totalSamples,
                                          o.silenceWindowSamples,
                                          o.searchRangeSamples)
  IN IF endSample < totalSamples /\ splitPoint /= NoSplitPoint
        /\ splitPoint > start
       THEN splitPoint
       ELSE endSample

\* A variant of KeepSegment that keeps every segment.
KeepEverySegment(segmentSamples, minChunkSamples) == TRUE

\* A variant of KeepSegment that also drops a segment exactly at the floor.
KeepSegmentAboveFloor(segmentSamples, minChunkSamples) ==
  segmentSamples > minChunkSamples

\* segmentSamples >= minChunkSamples
KeepSegment(segmentSamples, minChunkSamples) ==
  segmentSamples >= minChunkSamples

\* data.subarray(startSample, endSample) of a chunk
SegmentSamples(data, seg) == SubSeq(data, seg.from + 1, seg.to)

\* float32ToWavBuffer: the RIFF and data sizes of the header and the samples
\* as 16-bit integers, clamped to [-1, 1] and scaled by 0x8000 below zero and
\* by 0x7fff from zero up (samples are in hundredths)
float32ToWavBuffer(samples) ==
  [riffSize |-> 36 + Len(samples) * 2,
   dataSize |-> Len(samples) * 2,
   pcm16 |-> [i \in 1 .. Len(samples) |->
                LET sample == Max(-100, Min(100, samples[i]))
                IN IF sample < 0
                     THEN 0 - ((0 - sample) * 32768) \div 100
                     ELSE (sample * 32767) \div 100]]

\* the samples of the chunks, in order
RECURSIVE ConcatSegments(_, _, _)
ConcatSegments(data, segs, k) ==
  IF k > Len(segs) THEN <<>>
  ELSE SegmentSamples(data, segs[k]) \o ConcatSegments(data, segs, k + 1)

\* the loop has ended
SplitDone == splitPc = "split" /\ ~(startSample < Len(pcm))

\* one pass of the while loop of splitAtSilenceToWav
SplitIteration ==
  /\ splitPc = "split"
  /\ startSample < Len(pcm)
  /\ LET endSample == SplitEnd(pcm, opts, startSample)
     IN /\ segments' =
             IF KeepSegment(endSample - startSample, opts.minChunkSamples)
               THEN Append(segments, [from |-> startSample, to |-> endSample])
               ELSE segments
        /\ startSample' = endSample
  /\ UNCHANGED <<rawData, splitPc, prep, pcm, opts>>

(***************************************************************************)
(* trimSilence and processLocally.                                         *)
(***************************************************************************)
\* A variant of KeptRun that misses the first sample of the run.
KeptRunOffByOne(data, i, silentCount) ==
  SubSeq(data, i - silentCount + 2, i)

\* for (j = i - silentCount; j < i; j++) data[idx++] = rawData[j]
KeptRun(data, i, silentCount) ==
  SubSeq(data, i - silentCount + 1, i)

\* the second loop of trimSilence, from sample i on, with the samples kept
\* so far; the first loop counts the same samples
RECURSIVE TrimLoop(_, _, _, _, _)
TrimLoop(data, minSilenceTrimSamples, i, silentCount, kept) ==
  IF ~(i < Len(data)) THEN kept
  ELSE IF Abs(data[i + 1]) <= SILENCE_THRESHOLD
    THEN TrimLoop(data, minSilenceTrimSamples, i + 1, silentCount + 1, kept)
  ELSE TrimLoop(data, minSilenceTrimSamples, i + 1, 0,
                (IF silentCount > 0 /\ silentCount < minSilenceTrimSamples
                   THEN kept \o KeptRun(data, i, silentCount)
                   ELSE kept) \o <<data[i + 1]>>)

trimSilence(data, minSilenceTrimSamples) ==
  TrimLoop(data, minSilenceTrimSamples, 0, 0, <<>>)

\* processLocally up to the call of splitAtSilenceToWav
ProcessLocally ==
  /\ splitPc = "trim"
  /\ IF throwIfAborted(prep.aborted)
       THEN /\ splitPc' = "rejected"
            /\ prep' = [prep EXCEPT !.err = AbortError]
            /\ pcm' = pcm
       ELSE /\ pcm' = IF opts.trimLongSilence
                        THEN trimSilence(rawData, opts.minSilenceTrimSamples)
                        ELSE rawData
            /\ splitPc' = "split"
            /\ prep' = prep
  /\ UNCHANGED <<rawData, opts, startSample, segments>>

(***************************************************************************)
(* processResampledData and processWithWorker.                             *)
(***************************************************************************)
MaxLateEvents == 1

\* new Error(payload.error || 'Worker preprocessing failed.')
WorkerFailure == MkError("WorkerError", 0)

\* A variant of WorkerBackwardCut that cuts where the silent window ends.
WorkerCutAtWindowEnd(i, silenceWindowSamples) == i

\* worker script: if (silent) return i - silenceWindowSamples
WorkerBackwardCut(i, silenceWindowSamples) == i - silenceWindowSamples

\* worker script, trimSilence: the second loop from sample i on; the first
\* loop counts the samples the second one copies
RECURSIVE WorkerTrimLoop(_, _, _, _, _)
WorkerTrimLoop(rawSamples, minSilenceTrimSamples, i, silentCount, kept) ==
  IF ~(i < Len(rawSamples)) THEN kept
  ELSE IF Abs(rawSamples[i + 1]) <= SILENCE_THRESHOLD
    THEN WorkerTrimLoop(rawSamples, minSilenceTrimSamples, i + 1,
                        silentCount + 1, kept)
  ELSE WorkerTrimLoop(rawSamples, minSilenceTrimSamples, i + 1, 0,
                      (IF silentCount > 0 /\ silentCount < minSilenceTrimSamples
                         THEN kept \o [j \in 1 .. silentCount |->
                                         rawSamples[i - silentCount + j]]
                         ELSE kept) \o <<rawSamples[i + 1]>>)

\* worker script, findSilenceSplitPoint: the inner loop over j from `from`,
\* stopping at the first loud sample
RECURSIVE WorkerWindowSilent(_, _, _)
WorkerWindowSilent(data, from, to) ==
  IF ~(from < to) THEN TRUE
  ELSE IF Abs(data[from + 1]) > SILENCE_THRESHOLD THEN FALSE
  ELSE WorkerWindowSilent(data, from + 1, to)

\* worker script: for (let i = desiredSplit; i >= backwardStart; i--)
RECURSIVE WorkerBackwardSearch(_, _, _, _)
WorkerBackwardSearch(data, i, backwardStart, silenceWindowSamples) ==
  IF ~(i >= backwardStart) THEN NoSplitPoint
  ELSE IF WorkerWindowSilent(data, i - silenceWindowSamples, i)
    THEN WorkerBackwardCut(i, silenceWindowSamples)
  ELSE WorkerBackwardSearch(data, i - 1, backwardStart, silenceWindowSamples)

\* worker script: for (let i = desiredSplit; i < forwardEnd; i++)
RECURSIVE WorkerForwardSearch(_, _, _, _, _)
WorkerForwardSearch(data, i, forwardEnd, totalSamples, silenceWindowSamples) ==
  IF ~(i < forwardEnd) THEN NoSplitPoint
  ELSE IF WorkerWindowSilent(data, i,
                             Min(i + silenceWindowSamples, totalSamples))
    THEN i
  ELSE WorkerForwardSearch(data, i + 1, forwardEnd, totalSamples,
                           silenceWindowSamples)

\* worker script, findSilenceSplitPoint
WorkerFindSilenceSplitPoint(data, desiredSplit, totalSamples, silenceWindowSamples, searchRangeSamples) ==
  LET behind == WorkerBackwardSearch(
                  data, desiredSplit,
                  Max(silenceWindowSamples, desiredSplit - searchRangeSamples),
                  silenceWindowSamples)
  IN IF behind /= NoSplitPoint THEN behind
     ELSE WorkerForwardSearch(
            data, desiredSplit,
            Min(totalSamples, desiredSplit + searchRangeSamples),
            totalSamples, silenceWindowSamples)

\* the loop of splitAtSilenceToWavBuffers in the worker script
RECURSIVE SplitAll(_, _, _, _)
SplitAll(data, o, start, chunks) ==
  IF ~(start < Len(data)) THEN chunks
  ELSE LET totalSamples == Len(data)
           boundary == Min(start + o.maxSamples, totalSamples)
           splitPoint == WorkerFindSilenceSplitPoint(
                           data, boundary, totalSamples,
                           o.silenceWindowSamples, o.searchRangeSamples)
           endSample == IF boundary < totalSamples
                           /\ splitPoint /= NoSplitPoint /\ splitPoint > start
                          THEN splitPoint
                          ELSE boundary
       IN SplitAll(data, o, endSample,
                   IF endSample - start >= o.minChunkSamples
                     THEN Append(chunks, [from |-> start, to |-> endSample])
                     ELSE chunks)

\* worker script, float32ToWavBuffer, sample by sample
RECURSIVE WorkerPcm16(_, _)
WorkerPcm16(samples, i) ==
  IF ~(i < Len(samples)) THEN <<>>
  ELSE LET sample == Max(-100, Min(100, samples[i + 1]))
       IN <<IF sample < 0 THEN 0 - ((0 - sample) * 32768) \div 100
            ELSE (sample * 32767) \div 100>>
            \o WorkerPcm16(samples, i + 1)

\* worker script, float32ToWavBuffer
WorkerFloat32ToWavBuffer(samples) ==
  [riffSize |-> 36 + Len(samples) * 2,
   dataSize |-> Len(samples) * 2,
   pcm16 |-> WorkerPcm16(samples, 0)]

\* self.onmessage of the worker script: the data it splits
WorkerData(data, o) ==
  IF o.trimLongSilence
    THEN WorkerTrimLoop(data, o.minSilenceTrimSamples, 0, 0, <<>>)
  ELSE data

\* A variant of WorkerFinish without the settled flag.
WorkerFinishEveryTime(p) ==
  [p EXCEPT !.settled = TRUE, !.worker = "terminated",
            !.settlements = @ + 1]

\* finish(fn): if (settled) return; settled = true; worker.terminate(); fn()
WorkerFinish(p) ==
  IF p.settled THEN p
  ELSE [p EXCEPT !.settled = TRUE, !.worker = "terminated",
                 !.settlements = @ + 1]

\* A variant of FallsBack that rethrows every error.
NeverFallsBack(e) == FALSE

\* catch (error) { if (!this.isAbortError(error)) fall back; else throw }
FallsBack(e) == ~isAbortError(e)

\* the catch block of processResampledData on an error of the worker path
CatchWorkerError(p, e, ending) ==
  IF FallsBack(e)
    THEN /\ splitPc' = "trim"
         /\ prep' = [p EXCEPT !.outcome = ending]
    ELSE /\ splitPc' = "rejected"
         /\ prep' = [p EXCEPT !.outcome = ending, !.err = e]

\* processResampledData up to its first suspension
ProcessResampledData ==
  /\ splitPc = "entry"
  /\ IF throwIfAborted(prep.aborted)
       THEN /\ splitPc' = "rejected"
            /\ prep' = [prep EXCEPT !.err = AbortError]
       ELSE IF workerAvailable
         THEN \/ /\ splitPc' = "worker"
                 /\ prep' = [prep EXCEPT !.worker = "running"]
              \/ CatchWorkerError(prep, WorkerFailure, "startFailed")
         ELSE /\ splitPc' = "trim"
              /\ prep' = prep
  /\ UNCHANGED <<rawData, pcm, opts, startSample, segments>>

\* worker.onmessage with a result: finish(() => resolve(chunks))
WorkerPostsResult ==
  /\ splitPc = "worker"
  /\ prep' = [WorkerFinish(prep) EXCEPT !.outcome = "result"]
  /\ splitPc' = "split"
  /\ pcm' = WorkerData(rawData, opts)
  /\ segments' = SplitAll(pcm', opts, 0, <<>>)
  /\ startSample' = Len(pcm')
  /\ UNCHANGED <<rawData, opts>>

\* worker.onmessage with an error, or worker.onerror
WorkerPostsError ==
  /\ splitPc = "worker"
  /\ CatchWorkerError(WorkerFinish(prep), WorkerFailure, "error")
  /\ UNCHANGED <<rawData, pcm, opts, startSample, segments>>

\* the signal aborts while the worker runs: onAbort
AbortWhileWorker ==
  /\ splitPc = "worker"
  /\ ~prep.aborted
  /\ CatchWorkerError([WorkerFinish(prep) EXCEPT !.aborted = TRUE], AbortError,
                      "abort")
  /\ UNCHANGED <<rawData, pcm, opts, startSample, segments>>

\* an event of the worker that was queued before it was terminated
LateWorkerEvent ==
  /\ prep.worker = "terminated"
  /\ prep.late < MaxLateEvents
  /\ prep' = [WorkerFinish(prep) EXCEPT !.late = @ + 1]
  /\ UNCHANGED <<rawData, splitPc, pcm, opts, startSample, segments>>

(***************************************************************************)
(* TranscriberService.transcribe and the preprocessing checkpoints.        *)
(***************************************************************************)
TReject(e) ==
  /\ tpc' = "rejected"
  /\ tErr' = e
  /\ UNCHANGED tResult

\* A variant of StoreResult that appends results in completion order.
StoreInCompletionOrder(res, index, text) ==
  [res EXCEPT ![completedChunks] = text]

\* results[index] = await worker(items[index], index, merged.signal)
StoreResult(res, index, text) == [res EXCEPT ![index] = text]

\* results.join('\n').trim()
FullText(res, n) == TrimText(Join(res, n, <<"\n">>))

\* The pool size mapWithConcurrency is called with.
\* A variant of PoolSize with one pool size for both providers.
SamePoolSize(provider) == DEFAULT_TRANSCRIBE_CONCURRENCY

\* the concurrency the provider's variant passes to mapWithConcurrency
PoolSize(provider) ==
  IF provider = "gemini" THEN GEMINI_TRANSCRIBE_CONCURRENCY
  ELSE DEFAULT_TRANSCRIBE_CONCURRENCY

\* mapWithConcurrency up to the first suspension of every runner: each runner
\* checks the merged signal, takes the next index and issues its first request.
MapStart(n) ==
  IF n = 0
    THEN /\ tpc' = "resolved"
         /\ tResult' = <<>>
         /\ UNCHANGED <<tErr, mapVars, netCalls, uiVars>>
    ELSE
      LET limit == LimitedConcurrency(PoolSize(tProvider), n) IN
      /\ nChunks' = n
      /\ localAborted' = FALSE
      /\ mergedAborted' = mergeAbortSignals(aborted, FALSE)
      /\ firstError' = NoError
      /\ results' = EmptyResults
      /\ delays' = [i \in ChunkIndexes |-> <<>>]
      /\ completedChunks' = 0
      /\ completionOrder' = <<>>
      /\ IF throwIfAborted(aborted)
           THEN /\ nextIndex' = 0
                /\ runners' = [r \in Runners |->
                     IF r <= limit
                       THEN [Runner("threw", 0, 0) EXCEPT !.err = AbortError]
                       ELSE IdleRunner]
                /\ attempts' = [i \in ChunkIndexes |-> 0]
                /\ TReject(AbortError)
                /\ UNCHANGED <<netCalls, uiVars>>
           ELSE /\ nextIndex' = limit
                /\ runners' = [r \in Runners |->
                     IF r <= limit
                       THEN WorkerStart(tProvider, r - 1)
                       ELSE IdleRunner]
                /\ attempts' = [i \in ChunkIndexes |-> IF i < limit THEN 1 ELSE 0]
                /\ netCalls' = netCalls + limit
                /\ tpc' = "map"
                /\ OnTranscriptionProgress(
                     Progress(WorkerStartStage(tProvider), limit, n, 0))
                /\ UNCHANGED <<tErr, tResult>>

\* transcribe(): credential check, abort check, provider dispatch, and
\* decodeAndResample up to `await blob.arrayBuffer()`.
Transcribe ==
  /\ request = "transcribe"
  /\ request' = "none"
  /\ abortedAtCall' = aborted
  /\ IF ConfigMissing(tApiKey) THEN TReject(ConfigError)
     ELSE IF throwIfAborted(aborted) THEN TReject(AbortError)
     ELSE IF tProvider = "openai"
       THEN /\ tpc' = "arrayBuffer"
            /\ UNCHANGED <<tErr, tResult>>
     ELSE IF tProvider = "gemini"
       THEN /\ tpc' = "import"
            /\ UNCHANGED <<tErr, tResult>>
       ELSE TReject(MkError("UnsupportedProvider", 0))
  /\ IF ~ConfigMissing(tApiKey) /\ ~throwIfAborted(aborted) /\ tProvider = "openai"
       THEN OnTranscriptionProgress(Progress("preprocess", 0, 0, 0))
       ELSE UNCHANGED uiVars
  /\ UNCHANGED <<sigVars, tInputs, mapVars, notT>>

\* decodeAndResample: blob.arrayBuffer() resolved
ArrayBufferRead ==
  /\ tpc = "arrayBuffer"
  /\ IF throwIfAborted(aborted) THEN TReject(AbortError)
     ELSE /\ tpc' = "decode"
          /\ UNCHANGED <<tErr, tResult>>
  /\ UNCHANGED <<callVars, sigVars, uiVars, tInputs, mapVars, notT>>

\* decodeAndResample: decodeAudioData settled
DecodeAudioData ==
  /\ tpc = "decode"
  /\ \E ok \in BOOLEAN :
       IF ~ok THEN TReject(MkError("DecodeError", 0))
       ELSE IF throwIfAborted(aborted) THEN TReject(AbortError)
       ELSE /\ tpc' = "render"
            /\ UNCHANGED <<tErr, tResult>>
  /\ UNCHANGED <<callVars, sigVars, uiVars, tInputs, mapVars, notT>>

\* decodeAndResample: startRendering resolved; processResampledData starts the
\* worker, or runs processLocally when there is no Worker.
RenderDone ==
  /\ tpc = "render"
  /\ IF throwIfAborted(aborted)
       THEN TReject(AbortError) /\ UNCHANGED <<mapVars, netCalls, uiVars>>
       ELSE IF workerAvailable
         THEN /\ tpc' = "worker"
              /\ UNCHANGED <<tErr, tResult, mapVars, netCalls, uiVars>>
         ELSE MapStart(audioChunks)
  /\ UNCHANGED <<callVars, aborted, tInputs, notT>>

\* processWithWorker: the worker posts its result
WorkerResult ==
  /\ tpc = "worker"
  /\ ~aborted
  /\ MapStart(audioChunks)
  /\ UNCHANGED <<callVars, aborted, tInputs, notT>>

\* processWithWorker: the worker posts an error (or fails to start);
\* processResampledData falls back to processLocally
WorkerError ==
  /\ tpc = "worker"
  /\ ~aborted
  /\ MapStart(audioChunks)
  /\ UNCHANGED <<callVars, aborted, tInputs, notT>>

\* processWithWorker: onAbort rejects with the abort error
WorkerAbort ==
  /\ tpc = "worker"
  /\ aborted
  /\ TReject(AbortError)
  /\ UNCHANGED <<callVars, sigVars, uiVars, tInputs, mapVars, notT>>

(***************************************************************************)
(* mapWithConcurrency's runners, with the OpenAI chunk worker and           *)
(* withRetries inlined.                                                     *)
(***************************************************************************)
ActiveRunners == 1 .. LimitedConcurrency(PoolSize(tProvider), nChunks)

\* if (firstError === undefined) firstError = error
RecordFirstError(first, e) == IF first = NoError THEN e ELSE first

\* throw firstError ?? error
SurfacedError(first, e) == IF first /= NoError THEN first ELSE e

\* A variant of OnAttemptError without the cancellation check.
NoCancellationCheck(e, attempt, maxRetries) ==
  IF ~ShouldRetry(attempt, maxRetries) THEN "fail" ELSE "retry"

\* withRetries' catch block: rethrow a cancellation, give up after the last
\* attempt, otherwise sleep and retry.
OnAttemptError(e, attempt, maxRetries) ==
  IF isAbortError(e) THEN "rethrow"
  ELSE IF ~ShouldRetry(attempt, maxRetries) THEN "fail"
  ELSE "retry"

\* Promise.all(runners) settles: resolved once every runner has returned,
\* rejected as soon as one runner throws.
MapSettles(newRunners, newResults, newFirst, thrown) ==
  IF tpc /= "map" THEN UNCHANGED tCallVars
  ELSE IF thrown /= NoError
    THEN TReject(SurfacedError(newFirst, thrown))
  ELSE IF \A q \in ActiveRunners : newRunners[q].pc = "returned"
    THEN /\ tpc' = "resolved"
         /\ tResult' = FullText(newResults, nChunks)
         /\ UNCHANGED tErr
  ELSE UNCHANGED tCallVars

\* The worker rejected with e: the runner's catch block records the first
\* error, aborts the local controller and rethrows.
RunnerCatchFrom(rs, r, e, failure) ==
  LET newRunners == [rs EXCEPT ![r].pc = "threw", ![r].err = e,
                               ![r].failure = failure]
      newFirst == RecordFirstError(firstError, e)
      newLocal == localAborted \/ firstError = NoError
  IN /\ firstError' = newFirst
     /\ localAborted' = newLocal
     /\ mergedAborted' = IF tpc = "map"
                           THEN mergeAbortSignals(aborted, newLocal)
                           ELSE mergedAborted
     /\ runners' = newRunners
     /\ MapSettles(newRunners, results, newFirst, e)
     /\ UNCHANGED <<nChunks, nextIndex, results, attempts, delays,
                    completedChunks, completionOrder, netCalls, uiVars>>

RunnerCatch(r, e, failure) == RunnerCatchFrom(runners, r, e, failure)

\* The top of the runner's loop, after the worker returned `text` for the
\* chunk the runner held.
RunnerLoop(r, text) ==
  LET i == runners[r].index
      newResults == StoreResult(results, i, text)
      completed == completedChunks + 1
  IN /\ results' = newResults
     /\ completedChunks' = completed
     /\ completionOrder' = Append(completionOrder, i)
     /\ IF throwIfAborted(mergedAborted)
          THEN LET newRunners == [runners EXCEPT ![r].pc = "threw",
                                                 ![r].err = AbortError] IN
               /\ runners' = newRunners
               /\ MapSettles(newRunners, newResults, firstError, AbortError)
               /\ OnTranscriptionProgress(
                    Progress("transcribe", i + 1, nChunks, completed))
               /\ UNCHANGED <<nextIndex, attempts, netCalls>>
          ELSE
            /\ nextIndex' = nextIndex + 1
            /\ IF nextIndex >= nChunks
                 THEN LET newRunners == [runners EXCEPT ![r].pc = "returned"] IN
                      /\ runners' = newRunners
                      /\ MapSettles(newRunners, newResults, firstError, NoError)
                      /\ OnTranscriptionProgress(
                           IF tpc = "map" /\ \A q \in ActiveRunners :
                                               newRunners[q].pc = "returned"
                             THEN Progress("done", 0, nChunks, completed)
                             ELSE Progress("transcribe", i + 1, nChunks,
                                           completed))
                      /\ UNCHANGED <<attempts, netCalls>>
                 ELSE /\ runners' = [runners EXCEPT ![r] =
                           Runner("call", nextIndex, 1)]
                      /\ attempts' = [attempts EXCEPT ![nextIndex] = @ + 1]
                      /\ netCalls' = netCalls + 1
                      /\ OnTranscriptionProgress(
                           Progress("transcribe", nextIndex + 1, nChunks, 0))
                      /\ UNCHANGED tCallVars
     /\ UNCHANGED <<nChunks, localAborted, mergedAborted, firstError, delays>>

\* openai.audio.transcriptions.create resolved
CallSucceeds(r) ==
  /\ runners[r].pc = "call"
  /\ ~mergedAborted
  /\ RunnerLoop(r, ResponseBody(runners[r].index))
  /\ UNCHANGED <<callVars, aborted, tInputs, notT>>

\* operation() rejected with e: withRetries' catch block
OnOperationError(r, e) ==
  LET i == runners[r].index
      decision == OnAttemptError(e, runners[r].attempt, DefaultMaxRetries)
  IN CASE decision = "rethrow" -> RunnerCatch(r, e, e)
       [] decision = "fail" -> RunnerCatch(r, RetriesExhaustedError(i + 1), e)
       [] OTHER ->
            \* sleep(500 * 2^(attempt-1), signal)
            IF mergedAborted
              THEN RunnerCatch(r, AbortError, e)
              ELSE /\ runners' = [runners EXCEPT ![r].pc = "sleep",
                                                 ![r].failure = e]
                   /\ delays' = [delays EXCEPT ![i] =
                        Append(@, BackoffDelayMs(runners[r].attempt))]
                   /\ UNCHANGED <<nChunks, localAborted, mergedAborted,
                                  nextIndex, firstError, results, attempts,
                                  completedChunks, completionOrder,
                                  netCalls, tCallVars, uiVars>>

\* openai.audio.transcriptions.create rejected with a provider failure
CallFails(r) ==
  /\ runners[r].pc = "call"
  /\ ~mergedAborted
  /\ \E e \in {ProviderError, AbortedMessageError} : OnOperationError(r, e)
  /\ UNCHANGED <<callVars, aborted, tInputs, notT>>

\* the request's signal is aborted: the request rejects with an abort error
CallAborted(r) ==
  /\ runners[r].pc = "call"
  /\ mergedAborted
  /\ OnOperationError(r, AbortError)
  /\ UNCHANGED <<callVars, aborted, tInputs, notT>>

\* sleep's timer fires: the next attempt checks the signal and issues the request
SleepElapsed(r) ==
  /\ runners[r].pc = "sleep"
  /\ ~mergedAborted
  /\ runners' = [runners EXCEPT ![r].pc = "call", ![r].attempt = @ + 1]
  /\ attempts' = [attempts EXCEPT ![runners[r].index] = @ + 1]
  /\ netCalls' = netCalls + 1
  /\ UNCHANGED <<callVars, aborted, uiVars, tInputs, notT, tCallVars, nChunks,
                 localAborted, mergedAborted, nextIndex, firstError, results,
                 delays, completedChunks, completionOrder>>

\* sleep's onAbort listener rejects with the abort error, which leaves
\* withRetries through its catch block
SleepAborted(r) ==
  /\ runners[r].pc = "sleep"
  /\ mergedAborted
  /\ RunnerCatch(r, AbortError, runners[r].failure)
  /\ UNCHANGED <<callVars, aborted, tInputs, notT>>

\* The caller aborts the signal it passed in; the merged controller follows
\* while mapWithConcurrency's listeners are attached.
SignalAbort ==
  /\ aborted' = TRUE
  /\ mergedAborted' = IF tpc = "map"
                        THEN mergeAbortSignals(TRUE, localAborted)
                        ELSE mergedAborted

TranscriberStep ==
  \/ Transcribe
  \/ ArrayBufferRead
  \/ DecodeAudioData
  \/ RenderDone
  \/ WorkerResult
  \/ WorkerError
  \/ WorkerAbort
  \/ \E r \in Runners : CallSucceeds(r)
  \/ \E r \in Runners : CallFails(r)
  \/ \E r \in Runners : CallAborted(r)
  \/ \E r \in Runners : SleepElapsed(r)
  \/ \E r \in Runners : SleepAborted(r)

(***************************************************************************)
(* transcribeWithGemini: the chunk worker (upload, waitForGeminiFileReady,  *)
(* generateContent, and the delete of the finally block), with withRetries  *)
(* inlined.                                                                 *)
(***************************************************************************)
FileStates == {"PROCESSING", "ACTIVE", "FAILED"}

\* the values of Date.now() - startedAt at which a files.get returns: after
\* one sleep, at the ceiling, past the ceiling
PollInstants ==
  {PollIntervalMs, GEMINI_FILE_PROCESSING_TIMEOUT_MS,
   GEMINI_FILE_PROCESSING_TIMEOUT_MS + PollIntervalMs}

UploadNoUriError == MkError("UploadNoUri", 0)
ProcessingTimeoutError(chunk) == MkError("ProcessingTimeout", chunk)
ProcessingFailedError(chunk) == MkError("ProcessingFailed", chunk)
NoTextError == MkError("NoTextContent", 0)

\* A variant of TimedOut without a ceiling.
NeverTimedOut(elapsed) == FALSE

\* Date.now() - startedAt > GEMINI_FILE_PROCESSING_TIMEOUT_MS
TimedOut(elapsed) == elapsed > GEMINI_FILE_PROCESSING_TIMEOUT_MS

\* A variant of HasHandle that never finds a name to delete.
NoHandle(rec) == FALSE

\* uploadedFile?.name
HasHandle(rec) == rec.handle

\* the provider's faults are met by the requests of this runner's chunk
Faulty(r) == runners[r].index = faultyChunk

\* transcribeWithGemini after `await import('@google/genai')`: preprocessing
\* up to `await blob.arrayBuffer()`, or the blob as the only chunk
GenAIImported ==
  /\ tpc = "import"
  /\ IF forceWavPreprocess
       THEN /\ IF throwIfAborted(aborted) THEN TReject(AbortError)
               ELSE /\ tpc' = "arrayBuffer"
                    /\ UNCHANGED <<tErr, tResult>>
            /\ OnTranscriptionProgress(Progress("preprocess", 0, 0, 0))
            /\ UNCHANGED <<mapVars, netCalls>>
       ELSE MapStart(1)
  /\ UNCHANGED <<callVars, aborted, tInputs, notT>>

\* The worker throws e with the locals `rec`: the finally block issues the
\* delete when uploadedFile has a name; otherwise the worker rejects at once.
GWorkerThrows(r, rec, e, failure) ==
  IF HasHandle(rec)
    THEN /\ runners' = [runners EXCEPT ![r] =
              [rec EXCEPT !.pc = "delete", !.err = e, !.failure = failure]]
         /\ netCalls' = netCalls + 1
         /\ UNCHANGED <<nChunks, localAborted, mergedAborted, nextIndex,
                        firstError, results, attempts, delays,
                        completedChunks, completionOrder, tCallVars, uiVars>>
    ELSE RunnerCatchFrom([runners EXCEPT ![r] = rec], r, e, failure)

\* operation() rejected with e: withRetries' catch block
GOnOperationError(r, e) ==
  LET i == runners[r].index
      rec == runners[r]
      decision == OnAttemptError(e, rec.attempt, DefaultMaxRetries)
  IN CASE decision = "rethrow" -> GWorkerThrows(r, rec, e, e)
       [] decision = "fail" ->
            GWorkerThrows(r, rec, RetriesExhaustedError(i + 1), e)
       [] OTHER ->
            IF mergedAborted
              THEN GWorkerThrows(r, rec, AbortError, e)
              ELSE /\ runners' = [runners EXCEPT ![r].pc = "retrySleep",
                                                 ![r].failure = e]
                   /\ delays' = [delays EXCEPT ![i] =
                        Append(@, BackoffDelayMs(rec.attempt))]
                   /\ UNCHANGED <<nChunks, localAborted, mergedAborted,
                                  nextIndex, firstError, results, attempts,
                                  completedChunks, completionOrder,
                                  netCalls, tCallVars, uiVars>>

\* waitForGeminiFileReady from the top of its loop, and the worker up to the
\* generateContent request, with the file as last observed in `rec`
AfterFileObserved(r, rec) ==
  LET i == rec.index IN
  IF rec.fileState = "PROCESSING"
    THEN IF throwIfAborted(mergedAborted)
           THEN GWorkerThrows(r, rec, AbortError, rec.failure)
         ELSE IF TimedOut(rec.elapsed)
           THEN GWorkerThrows(r, rec, ProcessingTimeoutError(i + 1),
                              rec.failure)
         ELSE /\ runners' = [runners EXCEPT ![r] =
                   [rec EXCEPT !.pc = "pollSleep"]]
              /\ OnTranscriptionProgress(Progress("processing", i + 1,
                                                  nChunks, 0))
              /\ UNCHANGED <<nChunks, localAborted, mergedAborted, nextIndex,
                             firstError, results, attempts, delays,
                             completedChunks, completionOrder, netCalls,
                             tCallVars>>
  ELSE IF rec.fileState = "FAILED"
    THEN GWorkerThrows(r, rec, ProcessingFailedError(i + 1), rec.failure)
  ELSE IF throwIfAborted(mergedAborted)
    THEN GWorkerThrows(r, rec, AbortError, rec.failure)
  ELSE \* startedAt and the first withRetries' lastError are out of scope
       /\ runners' = [runners EXCEPT ![r] =
            [rec EXCEPT !.pc = "generate", !.stage = "generate",
                        !.attempt = 1, !.failure = NoError, !.elapsed = 0]]
       /\ attempts' = [attempts EXCEPT ![i] = 1]
       /\ delays' = [delays EXCEPT ![i] = <<>>]
       /\ netCalls' = netCalls + 1
       /\ OnTranscriptionProgress(Progress("transcribe", i + 1, nChunks, 0))
       /\ UNCHANGED <<nChunks, localAborted, mergedAborted, nextIndex,
                      firstError, results, completedChunks,
                      completionOrder, tCallVars>>

\* genAI.files.upload resolved: the name and uri checks, then the wait
UploadReturns(r) ==
  /\ runners[r].pc = "upload"
  /\ ~mergedAborted
  /\ \E hasName, hasUri \in BOOLEAN :
       /\ ~Faulty(r) => hasName /\ hasUri
       /\ IF hasName /\ hasUri
            THEN \E state \in FileStates :
                   /\ ~Faulty(r) => state = "ACTIVE"
                   /\ AfterFileObserved(r,
                        [runners[r] EXCEPT !.handle = TRUE,
                                           !.fileState = state,
                                           !.elapsed = 0])
            ELSE GWorkerThrows(r, [runners[r] EXCEPT !.handle = hasName],
                               UploadNoUriError, runners[r].failure)
  /\ UNCHANGED <<callVars, aborted, tInputs, notT>>

\* genAI.files.upload or generateContent rejected with a provider failure
RequestFails(r) ==
  /\ runners[r].pc \in {"upload", "generate"}
  /\ ~mergedAborted
  /\ Faulty(r)
  /\ \E e \in {ProviderError, AbortedMessageError} : GOnOperationError(r, e)
  /\ UNCHANGED <<callVars, aborted, tInputs, notT>>

\* the request's signal is aborted: the request rejects with an abort error
RequestAborted(r) ==
  /\ runners[r].pc \in {"upload", "generate"}
  /\ mergedAborted
  /\ GOnOperationError(r, AbortError)
  /\ UNCHANGED <<callVars, aborted, tInputs, notT>>

\* withRetries' sleep is over: the next attempt checks the signal and issues
\* the request again
RetrySleepElapsed(r) ==
  /\ runners[r].pc = "retrySleep"
  /\ ~mergedAborted
  /\ runners' = [runners EXCEPT ![r].pc = runners[r].stage,
                                ![r].attempt = @ + 1]
  /\ attempts' = [attempts EXCEPT ![runners[r].index] = @ + 1]
  /\ netCalls' = netCalls + 1
  /\ UNCHANGED <<callVars, aborted, uiVars, tInputs, notT, tCallVars, nChunks,
                 localAborted, mergedAborted, nextIndex, firstError, results,
                 delays, completedChunks, completionOrder>>

\* withRetries' sleep rejects with the abort error
RetrySleepAborted(r) ==
  /\ runners[r].pc = "retrySleep"
  /\ mergedAborted
  /\ GWorkerThrows(r, runners[r], AbortError, runners[r].failure)
  /\ UNCHANGED <<callVars, aborted, tInputs, notT>>

\* waitForGeminiFileReady: sleep(1000) is over, files.get is issued
PollSleepElapsed(r) ==
  /\ runners[r].pc = "pollSleep"
  /\ ~mergedAborted
  /\ runners' = [runners EXCEPT ![r].pc = "get"]
  /\ netCalls' = netCalls + 1
  /\ UNCHANGED <<callVars, aborted, uiVars, tInputs, notT, tCallVars, nChunks,
                 localAborted, mergedAborted, nextIndex, firstError, results,
                 attempts, delays, completedChunks, completionOrder>>

\* waitForGeminiFileReady: sleep(1000) rejects with the abort error
PollSleepAborted(r) ==
  /\ runners[r].pc = "pollSleep"
  /\ mergedAborted
  /\ GWorkerThrows(r, runners[r], AbortError, runners[r].failure)
  /\ UNCHANGED <<callVars, aborted, tInputs, notT>>

\* genAI.files.get resolved with the file's state, some time after the sleep
GetReturns(r) ==
  /\ runners[r].pc = "get"
  /\ ~mergedAborted
  /\ \E state \in FileStates, now \in PollInstants :
       /\ now >= runners[r].elapsed + PollIntervalMs
       /\ AfterFileObserved(r,
            [runners[r] EXCEPT !.fileState = state,
                               !.elapsed = IF state = "PROCESSING"
                                             THEN now ELSE @])
  /\ UNCHANGED <<callVars, aborted, tInputs, notT>>

\* genAI.files.get rejected: it is not retried
GetFails(r) ==
  /\ runners[r].pc = "get"
  /\ ~mergedAborted
  /\ GWorkerThrows(r, runners[r], ProviderError, ProviderError)
  /\ UNCHANGED <<callVars, aborted, tInputs, notT>>

\* genAI.files.get rejected with the abort error
GetAborted(r) ==
  /\ runners[r].pc = "get"
  /\ mergedAborted
  /\ GWorkerThrows(r, runners[r], AbortError, runners[r].failure)
  /\ UNCHANGED <<callVars, aborted, tInputs, notT>>

\* generateContent resolved: a response without a text fails the attempt;
\* otherwise the chunk is counted and the finally block issues the delete
GenerateReturns(r) ==
  /\ runners[r].pc = "generate"
  /\ ~mergedAborted
  /\ \E isString \in BOOLEAN :
       /\ ~Faulty(r) => isString
       /\ IF ~isString THEN GOnOperationError(r, NoTextError)
          ELSE LET i == runners[r].index
                   completed == completedChunks + 1
               IN /\ completedChunks' = completed
                  /\ completionOrder' = Append(completionOrder, i)
                  /\ OnTranscriptionProgress(
                       Progress("transcribe", i + 1, nChunks, completed))
                  /\ runners' = [runners EXCEPT ![r].pc = "delete",
                                                ![r].text = ResponseBody(i)]
                  /\ netCalls' = netCalls + 1
                  /\ UNCHANGED <<nChunks, localAborted, mergedAborted,
                                 nextIndex, firstError, results, attempts,
                                 delays, tCallVars>>
  /\ UNCHANGED <<callVars, aborted, tInputs, notT>>

\* The top of the runner's loop, after the Gemini worker returned `text`.
GRunnerLoop(rs, r, text) ==
  LET i == rs[r].index
      newResults == StoreResult(results, i, text)
  IN /\ results' = newResults
     /\ IF throwIfAborted(mergedAborted)
          THEN LET newRunners == [rs EXCEPT ![r].pc = "threw",
                                            ![r].err = AbortError] IN
               /\ runners' = newRunners
               /\ MapSettles(newRunners, newResults, firstError, AbortError)
               /\ UNCHANGED <<nextIndex, attempts, netCalls, uiVars>>
          ELSE
            /\ nextIndex' = nextIndex + 1
            /\ IF nextIndex >= nChunks
                 THEN LET newRunners == [rs EXCEPT ![r].pc = "returned"] IN
                      /\ runners' = newRunners
                      /\ MapSettles(newRunners, newResults, firstError, NoError)
                      /\ IF tpc = "map" /\ \A q \in ActiveRunners :
                                             newRunners[q].pc = "returned"
                           THEN OnTranscriptionProgress(
                                  Progress("done", 0, nChunks, completedChunks))
                           ELSE UNCHANGED uiVars
                      /\ UNCHANGED <<attempts, netCalls>>
                 ELSE /\ runners' = [rs EXCEPT ![r] =
                           WorkerStart("gemini", nextIndex)]
                      /\ attempts' = [attempts EXCEPT ![nextIndex] = @ + 1]
                      /\ netCalls' = netCalls + 1
                      /\ OnTranscriptionProgress(
                           Progress("upload", nextIndex + 1, nChunks, 0))
                      /\ UNCHANGED tCallVars
     /\ UNCHANGED <<nChunks, localAborted, mergedAborted, firstError, delays,
                    completedChunks, completionOrder>>

\* genAI.files.delete settled: a failure other than a cancellation is warned
\* about; the worker then returns its text or throws its error
DeleteSettles(r) ==
  /\ runners[r].pc = "delete"
  /\ \E settled \in {"deleted", "failed", "aborted"} :
       /\ settled = "aborted" => mergedAborted
       /\ settled = "failed" => Faulty(r)
       /\ LET rs == [runners EXCEPT ![r].warned = (settled = "failed")] IN
          IF runners[r].err /= NoError
            THEN RunnerCatchFrom(rs, r, runners[r].err, runners[r].failure)
            ELSE /\ GRunnerLoop(rs, r, runners[r].text)
  /\ UNCHANGED <<callVars, aborted, tInputs, notT>>

\* the runners whose worker has not settled
BusyRunners ==
  {r \in Runners :
     runners[r].pc \in {"call", "sleep", "upload", "retrySleep", "pollSleep",
                        "get", "generate", "delete"}}

GeminiStep ==
  \/ GenAIImported
  \/ \E r \in Runners : UploadReturns(r)
  \/ \E r \in Runners : RequestFails(r)
  \/ \E r \in Runners : RequestAborted(r)
  \/ \E r \in Runners : RetrySleepElapsed(r)
  \/ \E r \in Runners : RetrySleepAborted(r)
  \/ \E r \in Runners : PollSleepElapsed(r)
  \/ \E r \in Runners : PollSleepAborted(r)
  \/ \E r \in Runners : GetReturns(r)
  \/ \E r \in Runners : GetFails(r)
  \/ \E r \in Runners : GetAborted(r)
  \/ \E r \in Runners : GenerateReturns(r)
  \/ \E r \in Runners : DeleteSettles(r)

(***************************************************************************)
(* EditorService: texts.                                                   *)
(***************************************************************************)
\* Array.prototype.join over a sequence built by push
JoinSeq(seq, sep) ==
  Join([i \in 0 .. (Len(seq) - 1) |-> seq[i + 1]], Len(seq), sep)

ParagraphBreak == <<"\n", "\n">>

\* '\n\n---\n\n### ... (Detailed Transcript)\n\n'
Separator == <<"\n", "\n", "-", "\n", "\n">>

\* combineParts(summary, formattedTranscript)
combineParts(summary, formattedTranscript) ==
  LET trimmedSummary == TrimText(summary)
      trimmedTranscript == TrimText(formattedTranscript)
  IN IF trimmedTranscript = <<>>
       THEN trimmedSummary
       ELSE trimmedSummary \o Separator \o trimmedTranscript

\* The prompt a request carries: the summary prompt or chunk `index`'s
\* format prompt.
PromptOf(stage, index) == IF stage = "summary" THEN "S" ELSE ToString(index)

\* The d-th non-empty delta the model streams in answer to prompt p.
StreamDelta(p, d) == IF d % 2 = 1 THEN <<"f", p>> ELSE <<" ">>

\* The text a non-streamed request returns for prompt p, when it is not empty.
ResponseText(p) == <<"g", p>>

\* chunks[i]: text chunk i of the raw transcript (splitTextIntoChunks trims it)
RawChunkText(index) == <<"r", ToString(index)>>

\* 1000 * Math.pow(2, attempt - 1)
EditorBackoffDelayMs(attempt) == EditorRetryBaseDelayMs * (2 ^ (attempt - 1))

TextChunkIndexes == 0 .. (MaxTextChunks - 1)

EdNew ==
       [pc |-> "idle", stage |-> "summary", index |-> 0, attempt |-> 0,
        acc |-> <<>>, deltas |-> 0, delay |-> 0, summaryPart |-> <<>>,
        results |-> <<>>, lastPartial |-> <<>>, err |-> NoError,
        lastErr |-> NoError,
        result |-> <<>>, calls |-> 0, progress |-> EditProgress("none", 0, 0),
        failed |-> [i \in TextChunkIndexes |-> 0],
        outputs |-> [i \in TextChunkIndexes |-> <<>>]]

EdInit == ed = EdNew

\* no call of splitTextIntoChunks
IdleSplitter ==
  [pc |-> "none", text |-> <<>>, maxLength |-> 0, paragraphs |-> <<>>,
   currentChunk |-> <<>>, chunks |-> <<>>]

NoTextSplit == splitter = IdleSplitter

\* no call of streamEditToFile
IdleWriter ==
  [pc |-> "none", latestContent |-> 0, timer |-> FALSE, queued |-> 0,
   running |-> FALSE, awaited |-> 0, writing |-> <<>>, file |-> 0,
   pushes |-> 0, finalText |-> 0, streamed |-> 0]

NoWriter == writer = IdleWriter

(***************************************************************************)
(* EditorService: the control flow of editWithTwoStageStreaming, as         *)
(* functions from the call's state to its next state.                       *)
(***************************************************************************)
EReject(s, e) == [s EXCEPT !.pc = "rejected", !.err = e]

\* generateContentStream issues its streaming request
EIssueStream(s, stage, index) ==
  [s EXCEPT !.pc = "streamOpen", !.stage = stage, !.index = index,
            !.attempt = 0, !.acc = <<>>, !.deltas = 0, !.calls = @ + 1,
            !.progress = IF stage = "summary"
                           THEN EditProgress("summary", 0, 0)
                           ELSE EditProgress("transcript", index + 1, eChunks)]

\* the partial document a Stage-2 delta emits
PartialTranscript(done, accumulated) ==
  JoinSeq(SelectSeq(Append(done, TrimText(accumulated)),
                    LAMBDA t : t /= <<>>), ParagraphBreak)

\* formatTranscriptStreaming's loop from chunk i on: its abort check and the
\* chunk's streaming request, or the return and the combine step after the
\* last chunk.
EChunkLoop(s, i) ==
  IF i >= eChunks
    THEN LET transcriptPart == TrimText(JoinSeq(s.results, ParagraphBreak))
             finalNote == combineParts(s.summaryPart, transcriptPart)
         IN [s EXCEPT !.pc = "resolved", !.result = finalNote,
                      !.lastPartial = finalNote,
                      !.progress = EditProgress("done", 0, 0)]
    ELSE IF throwIfAborted(aborted) THEN EReject(s, AbortError)
    ELSE EIssueStream(s, "transcript", i)

\* A variant of DegradedChunk that drops the chunk.
DropChunk(chunk) == <<>>

\* the text kept for a chunk whose streamed and non-streamed calls all failed
DegradedChunk(chunk) == chunk

\* A variant of EChunkDone that puts the newest chunk first.
EChunkDoneNewestFirst(s, formattedChunk) ==
  LET newResults == <<TrimText(formattedChunk)>> \o s.results
      partial == combineParts(s.summaryPart, JoinSeq(newResults, ParagraphBreak))
  IN EChunkLoop([s EXCEPT !.results = newResults, !.lastPartial = partial],
                s.index + 1)

\* results.push(formattedChunk.trim()), the partial document, the next chunk
EChunkDone(s, formattedChunk) ==
  LET newResults == Append(s.results, TrimText(formattedChunk))
      partial == combineParts(s.summaryPart, JoinSeq(newResults, ParagraphBreak))
  IN EChunkLoop([s EXCEPT !.results = newResults, !.lastPartial = partial],
                s.index + 1)

\* Stage 1 produced summaryPart; the abort check before Stage 2
ESummaryDone(s, text, viaFallback) ==
  LET t == [s EXCEPT !.summaryPart = text,
                     !.lastPartial = IF viaFallback THEN text ELSE @]
  IN IF throwIfAborted(aborted) THEN EReject(t, AbortError)
     ELSE EChunkLoop(t, 0)

\* the model answered the current request with `text`
EStageDone(s, text, viaFallback) ==
  IF s.stage = "summary"
    THEN ESummaryDone(s, text, viaFallback)
    ELSE EChunkDone([s EXCEPT !.outputs[s.index] = text], text)

\* generateContent threw after its last attempt: Stage 1 fails the call,
\* Stage 2 keeps the chunk's raw text
EFallbackFailed(s) ==
  IF s.stage = "summary"
    THEN EReject(s, RetriesExhaustedError(0))
    ELSE EChunkDone(s, DegradedChunk(RawChunkText(s.index)))

\* generateContent's catch block, and the callers' catch blocks above it
EOnFallbackError(s0, e) ==
  LET s == [s0 EXCEPT !.lastErr = e] IN
  IF isAbortError(e) THEN EReject(s, e)
  ELSE IF ShouldRetry(s.attempt, MAX_RETRIES)
    THEN IF aborted
           THEN EReject(s, AbortError)
           ELSE [s EXCEPT !.pc = "sleep",
                          !.delay = EditorBackoffDelayMs(s.attempt)]
    ELSE EFallbackFailed(s)

\* A variant of EOnStreamError that falls back after a cancellation too.
EFallBackOnAnyError(s0, e) ==
  LET s == [s0 EXCEPT !.lastErr = e] IN
  IF throwIfAborted(aborted) THEN EReject(s, AbortError)
  ELSE [s EXCEPT !.pc = "call", !.attempt = 1, !.calls = @ + 1]

\* the catch block around generateContentStream: a cancellation is rethrown,
\* anything else falls back to generateContent, whose first attempt checks the
\* signal and issues the request
EOnStreamError(s0, e) ==
  LET s == [s0 EXCEPT !.lastErr = e] IN
  IF isAbortError(e) THEN EReject(s, e)
  ELSE IF throwIfAborted(aborted) THEN EReject(s, AbortError)
  ELSE [s EXCEPT !.pc = "call", !.attempt = 1, !.calls = @ + 1]

\* an attempt of the current Stage-2 chunk's reformat call failed with an
\* error that is not a cancellation
ECountFailure(s, e) ==
  IF s.stage = "transcript" /\ ~isAbortError(e)
    THEN [s EXCEPT !.failed[s.index] = @ + 1]
    ELSE s

(***************************************************************************)
(* EditorService: actions.                                                 *)
(***************************************************************************)
EUpdate(new) ==
  /\ ed' = new
  /\ netCalls' = netCalls + (new.calls - ed.calls)
  /\ IF new.progress /= ed.progress
       THEN UpdateUi(getEditProgressText(new.progress))
       ELSE UNCHANGED uiVars
  /\ UNCHANGED <<aborted, eInputs, notE>>

EStep(new) == EUpdate(new) /\ UNCHANGED callVars

ProviderFailures == {ProviderError, AbortedMessageError}

\* new Error('... streaming response contained no text.')
EmptyStreamError == MkError("EmptyStream", 0)

\* editWithTwoStageStreaming up to the Stage-1 streaming request
Edit ==
  /\ request = "edit"
  /\ request' = "none"
  /\ abortedAtCall' = aborted
  /\ EUpdate(IF ConfigMissing(eApiKey) THEN EReject(ed, ConfigError)
           ELSE IF throwIfAborted(aborted) THEN EReject(ed, AbortError)
           ELSE EIssueStream(ed, "summary", 0))

\* the streaming request returned its stream
StreamOpened ==
  /\ ed.pc = "streamOpen"
  /\ ~aborted
  /\ EStep([ed EXCEPT !.pc = "streaming"])

\* the streaming request was rejected by the provider
StreamOpenFails ==
  /\ ed.pc = "streamOpen"
  /\ ~aborted
  /\ \E e \in ProviderFailures : EStep(EOnStreamError(ECountFailure(ed, e), e))

\* for await: a non-empty delta; the loop body checks the signal, accumulates
\* and calls onDelta
StreamDeltaArrives ==
  /\ ed.pc = "streaming"
  /\ ~aborted
  /\ ed.deltas < MaxDeltas
  /\ LET accumulated ==
           ed.acc \o StreamDelta(PromptOf(ed.stage, ed.index), ed.deltas + 1)
     IN EStep([ed EXCEPT
          !.acc = accumulated,
          !.deltas = @ + 1,
          !.lastPartial =
            IF ed.stage = "summary"
              THEN accumulated
              ELSE combineParts(ed.summaryPart,
                                PartialTranscript(ed.results, accumulated))])

\* for await: the stream is exhausted (an aborted stream that returns instead
\* of throwing ends the loop the same way)
StreamEnds ==
  /\ ed.pc = "streaming"
  /\ ~aborted \/ abortedStreamReturns
  /\ EStep(IF ed.acc = <<>>
             THEN EOnStreamError(ECountFailure(ed, EmptyStreamError),
                                 EmptyStreamError)
             ELSE EStageDone(ed, ed.acc, FALSE))

\* for await: the stream throws a provider failure
StreamFails ==
  /\ ed.pc = "streaming"
  /\ ~aborted
  /\ \E e \in ProviderFailures : EStep(EOnStreamError(ECountFailure(ed, e), e))

\* the streaming request or its stream throws the abort error
StreamAborted ==
  /\ aborted
  /\ \/ ed.pc = "streamOpen"
     \/ ed.pc = "streaming" /\ ~abortedStreamReturns
  /\ EStep(EOnStreamError(ed, AbortError))

\* generateContent: the request returned a string (possibly empty)
FallbackReturns ==
  /\ ed.pc = "call"
  /\ ~aborted
  /\ \E text \in {ResponseText(PromptOf(ed.stage, ed.index)), <<>>} :
       EStep(EStageDone(ed, text, TRUE))

\* generateContent: the request failed
FallbackFails ==
  /\ ed.pc = "call"
  /\ ~aborted
  /\ \E e \in ProviderFailures :
       EStep(EOnFallbackError(ECountFailure(ed, e), e))

\* generateContent: the request's signal is aborted
FallbackAborted ==
  /\ ed.pc = "call"
  /\ aborted
  /\ EStep(EOnFallbackError(ed, AbortError))

\* generateContent: the backoff timer fires; the next attempt checks the
\* signal and issues the request
EditorSleepElapsed ==
  /\ ed.pc = "sleep"
  /\ ~aborted
  /\ EStep([ed EXCEPT !.pc = "call", !.attempt = @ + 1, !.calls = @ + 1,
                      !.lastErr = NoError])

\* generateContent: the abort listener rejects the backoff sleep
EditorSleepAborted ==
  /\ ed.pc = "sleep"
  /\ aborted
  /\ EStep(EReject(ed, AbortError))

EditorStep ==
  \/ Edit
  \/ StreamOpened
  \/ StreamOpenFails
  \/ StreamDeltaArrives
  \/ StreamEnds
  \/ StreamFails
  \/ StreamAborted
  \/ FallbackReturns
  \/ FallbackFails
  \/ FallbackAborted
  \/ EditorSleepElapsed
  \/ EditorSleepAborted

(***************************************************************************)
(* The plugin (main.ts): the task controller and the command handlers.     *)
(***************************************************************************)
NoticeKinds ==
  {"noticeTaskCancelled", "noticeError", "noticeErrorEditing",
   "noticeRawTranscriptSaved", "noticeEditedTranscriptSaved",
   "noticeTaskAlreadyRunning"}

NoNotices == [k \in NoticeKinds |-> 0]

\* new Notice(t(kind))
ShowNotice(ns, kind) == [ns EXCEPT ![kind] = @ + 1]

IdleTask ==
  [kind |-> "none", pc |-> "idle", shouldEdit |-> FALSE,
   entry |-> "none", keepOriginal |-> FALSE]

\* who calls processAudioBlob: the record modal's stop handler and the file
\* menu's 'Transcribe with AI' item
EntryPaths == {"recordModal", "fileMenu"}

\* the saveRawWhenEditorEnabled option each caller passes when the editor is
\* enabled; without the editor the option is not read
saveRawWhenEditorEnabled(entry, keepOriginal) ==
  IF entry = "recordModal" THEN keepOriginal ELSE TRUE

\* a file operation that failed
FileError == MkError("FileError", 0)

MainInit ==
  /\ activeTaskController = 0
  /\ running = 0
  /\ task = IdleTask
  /\ notices = NoNotices
  /\ outcome = "none"
  /\ cancelCalls = 0

isTaskRunning == activeTaskController /= 0

\* A user event is handled only between callbacks: no entry point is in its
\* synchronous prefix and no settled call is waiting for the handler's
\* continuation (a microtask).
Quiescent ==
  /\ request = "none"
  /\ ~(task.pc = "transcribe" /\ tpc \in {"resolved", "rejected"})
  /\ ~(task.pc = "edit" /\ ed.pc \in {"resolved", "rejected"})

\* A variant of BeginTaskThrows without the precondition.
BeginTaskNeverThrows == FALSE

\* beginTask's precondition: if (this.activeTaskController) throw
BeginTaskThrows == activeTaskController /= 0

\* the locals of a mapWithConcurrency call that is not running
NoMap ==
  /\ nChunks' = 0
  /\ localAborted' = FALSE
  /\ mergedAborted' = FALSE
  /\ nextIndex' = 0
  /\ firstError' = NoError
  /\ results' = EmptyResults
  /\ runners' = [r \in Runners |-> IdleRunner]
  /\ attempts' = [i \in ChunkIndexes |-> 0]
  /\ delays' = [i \in ChunkIndexes |-> <<>>]
  /\ completedChunks' = 0
  /\ completionOrder' = <<>>

\* the settings and inputs a call reads are drawn when the call is made
NoTranscribeInputs ==
  /\ tApiKey' = TRUE
  /\ tProvider' = "openai"
  /\ audioChunks' = 0
  /\ workerAvailable' = TRUE
  /\ emptyBodyChunk' = -1
  /\ faultyChunk' = -1
  /\ forceWavPreprocess' = TRUE
  /\ UNCHANGED splitVars

NoEditInputs ==
  /\ eApiKey' = TRUE
  /\ eChunks' = 0
  /\ UNCHANGED <<abortedStreamReturns, splitter, writer>>

\* no call of transcribe() is pending or holds a result
NoTranscribeCall ==
  /\ tpc' = "idle"
  /\ tErr' = NoError
  /\ tResult' = <<>>

\* a handler starts: no call of transcribe() or editWithTwoStageStreaming()
\* has been made for it yet
NewPipeline ==
  /\ NoTranscribeCall
  /\ NoMap
  /\ ed' = EdNew
  /\ netCalls' = 0
  /\ NoEditInputs

\* new AbortController(): an object distinct from the current one
NewController == IF activeTaskController = 1 THEN 2 ELSE 1

\* beginTask(initialStatus) past its precondition: a new controller with a
\* fresh signal; `message` is the progress notice's text when the handler
\* first suspends
beginTask(initialStatus, message) ==
  /\ activeTaskController' = NewController
  /\ aborted' = FALSE
  /\ status' = initialStatus
  /\ progressNotice' = message
  /\ emitted' = NoEmission

endTask ==
  /\ activeTaskController' = 0
  /\ progressNotice' = NoNotice
  /\ status' = StatusText("statusIdle")
  /\ emitted' = NoEmission

\* the handler's catch block and its finally block; the calls it made are
\* over (the runners a rejected mapWithConcurrency left behind go on)
Finish(how, shown) ==
  /\ outcome' = how
  /\ notices' = shown
  /\ endTask
  /\ running' = running - 1
  /\ task' = IdleTask
  /\ NoTranscribeCall
  /\ NoTranscribeInputs
  /\ NoEditInputs
  /\ ed' = EdNew
  /\ netCalls' = 0
  /\ UNCHANGED <<callVars, aborted, cancelCalls, mapVars>>

\* A variant of Fail that reports every error as a failure.
FailAsError(e) ==
  Finish("error",
         ShowNotice(notices, IF task.kind = "edit"
                               THEN "noticeErrorEditing"
                               ELSE "noticeError"))

\* catch (error): the cancelled notice or the error notice
Fail(e) ==
  IF isAbortError(e)
    THEN Finish("cancelled", ShowNotice(notices, "noticeTaskCancelled"))
    ELSE Finish("error",
                ShowNotice(notices, IF task.kind = "edit"
                                      THEN "noticeErrorEditing"
                                      ELSE "noticeError"))

\* the handler moves on to its next await
Continue(pc, shown) ==
  /\ task' = [task EXCEPT !.pc = pc, !.entry = "none",
                          !.keepOriginal = FALSE]
  /\ notices' = shown
  /\ UNCHANGED <<tVars, eVars>>
  /\ UNCHANGED <<callVars, aborted, netCalls, activeTaskController, running,
                 outcome, cancelCalls>>

\* a start that found a task running: only the notice is shown
RejectStart ==
  /\ notices["noticeTaskAlreadyRunning"] < MaxRejected
  /\ notices' = ShowNotice(notices, "noticeTaskAlreadyRunning")
  /\ UNCHANGED <<callVars, sigVars, uiVars, tVars, eVars, activeTaskController,
                 running, task, outcome, cancelCalls>>

\* processAudioBlob up to `await this.transcriber.transcribe(...)`
ProcessAudioBlob ==
  /\ Quiescent
  /\ IF isTaskRunning THEN RejectStart
     ELSE /\ beginTask(StatusText("statusTranscribing"),
                       StatusText("noticeTranscribingAudio"))
          /\ running' = running + 1
          /\ task' = [IdleTask EXCEPT !.kind = "audio", !.pc = "transcribe"]
          /\ request' = "transcribe"
          /\ abortedAtCall' = FALSE
          /\ tApiKey' \in BOOLEAN
          /\ tProvider' = "openai"
          /\ audioChunks' \in 0 .. MaxChunks
          /\ workerAvailable' \in BOOLEAN
          /\ emptyBodyChunk' \in {-1, 0}
          /\ emptyBodyChunk' < audioChunks'
          /\ faultyChunk' = -1
          /\ forceWavPreprocess' = TRUE
          /\ UNCHANGED splitVars
          /\ NewPipeline
          /\ notices' = NoNotices
          /\ outcome' = "running"
          /\ UNCHANGED cancelCalls

\* the edit command's template callback up to streamEditToFile's
\* `await this.fileService.saveTextWithName('', ...)`
EditCommand ==
  /\ Quiescent
  /\ IF BeginTaskThrows THEN RejectStart
     ELSE /\ beginTask(StatusText("statusEditing"), StatusText("statusEditing"))
          /\ running' = running + 1
          /\ task' = [IdleTask EXCEPT !.kind = "edit", !.pc = "createEdited",
                                      !.shouldEdit = TRUE]
          /\ NoTranscribeInputs
          /\ NewPipeline
          /\ notices' = NoNotices
          /\ outcome' = "running"
          /\ UNCHANGED <<callVars, cancelCalls>>

\* A variant of CancelIsNoop that does not look at the signal.
CancelIsNoopWhenIdle == activeTaskController = 0

\* cancelActiveTask's early return
CancelIsNoop == activeTaskController = 0 \/ aborted

cancelActiveTask ==
  /\ Quiescent
  /\ cancelCalls < MaxCancelCalls
  /\ cancelCalls' = cancelCalls + 1
  /\ IF CancelIsNoop
       THEN UNCHANGED <<sigVars, uiVars, mergedAborted, notices>>
       ELSE /\ SignalAbort
            /\ UpdateUi(StatusText("statusCancelled"))
            /\ notices' = ShowNotice(notices, "noticeTaskCancelled")
            /\ UNCHANGED netCalls
  /\ UNCHANGED <<callVars, tInputs, tCallVars, nChunks, localAborted, nextIndex,
                 firstError, results, runners, attempts, delays,
                 completedChunks, completionOrder, eVars,
                 activeTaskController, running, task, outcome>>

\* updateStatus(statusEditing), the notice, and streamEditToFile up to its
\* `await saveTextWithName('', ...)`
StartStreamEdit(shown) ==
  /\ UpdateUi(StatusText("statusEditing"))
  /\ Continue("createEdited", shown)

\* processAudioBlob: transcribe() settled.  The caller, the settings and the
\* handler's options are drawn where the handler first reads them (shouldEdit,
\* i.e. editor.enabled with the template the caller passed, and
\* saveRawWhenEditorEnabled here, openResult once a file is saved) and are
\* dropped once the raw transcript is dealt with; the locals of the call
\* that returned are gone.
TranscribeSettled ==
  /\ task.pc = "transcribe"
  /\ request = "none"
  /\ tpc \in {"resolved", "rejected"}
  /\ IF tpc = "rejected" THEN Fail(tErr)
     ELSE \E entry \in EntryPaths : \E shouldEdit, keepOriginal \in BOOLEAN :
       LET saveRaw == saveRawWhenEditorEnabled(entry, keepOriginal) IN
       /\ task' = [task EXCEPT
            !.pc = IF ~shouldEdit \/ saveRaw THEN "saveRaw" ELSE "createEdited",
            !.shouldEdit = shouldEdit,
            !.entry = entry,
            !.keepOriginal = keepOriginal]
       /\ IF ~shouldEdit \/ saveRaw
            THEN UNCHANGED uiVars
            ELSE UpdateUi(StatusText("statusEditing"))
       /\ NoMap
       /\ NoTranscribeCall
       /\ NoTranscribeInputs
       /\ UNCHANGED <<callVars, aborted, netCalls, activeTaskController, running,
                      outcome, cancelCalls, notices, eVars>>

\* processAudioBlob: saveTextWithName(transcript, ...) settled
RawSaved ==
  /\ task.pc = "saveRaw"
  /\ \E ok, openResult \in BOOLEAN :
       LET shown == ShowNotice(notices, "noticeRawTranscriptSaved") IN
       IF ~ok THEN Fail(FileError)
       ELSE IF task.shouldEdit THEN StartStreamEdit(shown)
       ELSE IF openResult
         THEN Continue("open", shown) /\ UNCHANGED uiVars
         ELSE Finish("success", shown)

\* streamEditToFile: saveTextWithName('', ...) settled; the call of
\* editWithTwoStageStreaming
EditedFileCreated ==
  /\ task.pc = "createEdited"
  /\ \E ok \in BOOLEAN :
       IF ~ok THEN Fail(FileError)
       ELSE /\ task' = [task EXCEPT !.pc = "edit", !.entry = "none",
                                    !.keepOriginal = FALSE]
            /\ request' = "edit"
            /\ abortedAtCall' = FALSE
            /\ eApiKey' \in BOOLEAN
            /\ eChunks' \in 0 .. MaxTextChunks
            /\ UNCHANGED <<sigVars, uiVars, tVars, abortedStreamReturns, splitter,
                           writer, ed,
                           activeTaskController, running, notices, outcome,
                           cancelCalls>>

\* streamEditToFile: editWithTwoStageStreaming settled; the finally block
\* awaits writer.flush()
EditSettled ==
  /\ task.pc = "edit"
  /\ request = "none"
  /\ ed.pc \in {"resolved", "rejected"}
  /\ task' = [task EXCEPT !.pc = "flush"]
  /\ ed' = [EdNew EXCEPT !.pc = ed.pc, !.err = ed.err, !.result = ed.result]
  /\ NoEditInputs
  /\ UNCHANGED <<callVars, sigVars, uiVars, tVars, activeTaskController,
                 running, notices, outcome, cancelCalls>>

\* streamEditToFile: writer.flush() settled (its failure is only logged);
\* the edit's error propagates, or the final text is written
FlushSettled ==
  /\ task.pc = "flush"
  /\ IF ed.pc = "rejected" THEN Fail(ed.err)
     ELSE Continue("updateText", notices) /\ UNCHANGED uiVars

\* streamEditToFile: updateText(editedPath, finalText) settled
FinalTextWritten ==
  /\ task.pc = "updateText"
  /\ \E ok, openResult \in BOOLEAN :
       LET shown == ShowNotice(notices, "noticeEditedTranscriptSaved") IN
       IF ~ok THEN Fail(FileError)
       ELSE IF task.kind = "edit" \/ openResult
         THEN Continue("open", shown) /\ UNCHANGED uiVars
         ELSE Finish("success", shown)

\* openFile settled
FileOpened ==
  /\ task.pc = "open"
  /\ \E ok \in BOOLEAN :
       IF ok THEN Finish("success", notices) ELSE Fail(FileError)

\* the steps the user takes
UserStep ==
  \/ ProcessAudioBlob
  \/ EditCommand
  \/ cancelActiveTask

\* the steps of a running handler
HandlerStep ==
  \/ TranscribeSettled
  \/ RawSaved
  \/ EditedFileCreated
  \/ EditSettled
  \/ FlushSettled
  \/ FinalTextWritten
  \/ FileOpened

Init ==
  /\ request = "none"
  /\ abortedAtCall = FALSE
  /\ aborted = FALSE
  /\ netCalls = 0
  /\ UiInit
  /\ tApiKey = TRUE
  /\ tProvider = "openai"
  /\ audioChunks = 0
  /\ workerAvailable = TRUE
  /\ emptyBodyChunk = -1
  /\ faultyChunk = -1
  /\ forceWavPreprocess = TRUE
  /\ NoSplit
  /\ TInit
  /\ eApiKey = TRUE
  /\ eChunks = 0
  /\ abortedStreamReturns \in BOOLEAN
  /\ EdInit
  /\ NoTextSplit
  /\ NoWriter
  /\ MainInit

Next ==
  \/ UserStep
  \/ HandlerStep
  \/ TranscriberStep
  \/ EditorStep

Spec == Init /\ [][Next]_vars

(***************************************************************************)
(* LifeSpec: the plugin with its unloading.  Unloading removes the         *)
(* plugin's commands and menu items, so no user event reaches it while the *)
(* handler it left behind unwinds.                                         *)
(***************************************************************************)
\* a handler is still running on a plugin whose controller was cleared
Unwinding == task.pc /= "idle" /\ activeTaskController = 0

\* onunload: abort the controller unless it is aborted, clear it, hide the
\* progress notice and show the idle status
onunload ==
  /\ Quiescent
  /\ IF activeTaskController /= 0 /\ ~aborted
       THEN SignalAbort
       ELSE UNCHANGED <<aborted, mergedAborted>>
  /\ activeTaskController' = 0
  /\ progressNotice' = NoNotice
  /\ status' = StatusText("statusIdle")
  /\ UNCHANGED <<callVars, netCalls, emitted, tInputs, tCallVars, nChunks,
                 localAborted, nextIndex, firstError, results, runners,
                 attempts, delays, completedChunks, completionOrder, eVars,
                 running, task, notices, outcome, cancelCalls>>

LifeNext ==
  \/ onunload
  \/ ~Unwinding /\ UserStep
  \/ HandlerStep
  \/ TranscriberStep
  \/ EditorStep

LifeSpec == Init /\ [][LifeNext]_vars

(***************************************************************************)
(* SvcSpec: a pipeline entry point called directly, with any settings and  *)
(* a signal the caller may abort at any time (also before the call).       *)
(***************************************************************************)
CallerAbort ==
  /\ ~aborted
  /\ SignalAbort
  /\ UNCHANGED <<callVars, netCalls, uiVars, tInputs, tCallVars, nChunks,
                 localAborted, nextIndex, firstError, results, runners,
                 attempts, delays, completedChunks, completionOrder, eVars,
                 mainVars>>

SvcInit ==
  /\ abortedAtCall = FALSE
  /\ aborted = FALSE
  /\ netCalls = 0
  /\ UiInit
  /\ NoSplit
  /\ TInit
  /\ EdInit
  /\ NoTextSplit
  /\ NoWriter
  /\ MainInit
  /\ \/ /\ request = "transcribe"
        /\ tApiKey \in BOOLEAN
        /\ tProvider = "openai"
        /\ audioChunks \in 0 .. MaxChunks
        /\ workerAvailable \in BOOLEAN
        /\ emptyBodyChunk \in -1 .. (audioChunks - 1)
        /\ faultyChunk = -1
        /\ forceWavPreprocess = TRUE
        /\ eApiKey = TRUE
        /\ eChunks = 0
        /\ abortedStreamReturns = FALSE
     \/ /\ request = "edit"
        /\ tApiKey = TRUE
        /\ tProvider = "openai"
        /\ audioChunks = 0
        /\ workerAvailable = TRUE
        /\ emptyBodyChunk = -1
        /\ faultyChunk = -1
        /\ forceWavPreprocess = TRUE
        /\ eApiKey \in BOOLEAN
        /\ eChunks \in 0 .. MaxTextChunks
        /\ abortedStreamReturns \in BOOLEAN

SvcNext ==
  \/ CallerAbort
  \/ TranscriberStep
  \/ EditorStep

SvcSpec == SvcInit /\ [][SvcNext]_vars

(***************************************************************************)
(* transcribe() on its own, with either provider.                          *)
(***************************************************************************)
GemInit ==
  /\ abortedAtCall = FALSE
  /\ aborted = FALSE
  /\ netCalls = 0
  /\ UiInit
  /\ NoSplit
  /\ TInit
  /\ EdInit
  /\ NoTextSplit
  /\ NoWriter
  /\ MainInit
  /\ request = "transcribe"
  /\ tApiKey = TRUE
  /\ tProvider \in {"openai", "gemini"}
  /\ audioChunks \in 0 .. MaxChunks
  /\ workerAvailable = TRUE
  /\ emptyBodyChunk = -1
  /\ forceWavPreprocess \in BOOLEAN
  /\ tProvider = "openai" => forceWavPreprocess
  /\ ~forceWavPreprocess => audioChunks = 1
  /\ faultyChunk \in -1 .. (audioChunks - 1)
  /\ tProvider = "openai" => faultyChunk = -1
  /\ eApiKey = TRUE
  /\ eChunks = 0
  /\ abortedStreamReturns = FALSE

GemNext ==
  \/ CallerAbort
  \/ TranscriberStep
  \/ GeminiStep

GemSpec == GemInit /\ [][GemNext]_vars

(***************************************************************************)
(* splitAtSilenceToWav on its own: one call, on every sample buffer and    *)
(* every choice of the options.                                            *)
(***************************************************************************)
notSplit == <<callVars, sigVars, uiVars, tApiKey, tProvider, audioChunks,
              workerAvailable, emptyBodyChunk, faultyChunk,
              forceWavPreprocess, tCallVars,
              mapVars, eVars, mainVars>>

\* the state at the entry of the local audio processing, for one of the
\* given pairs of a buffer and options
LocalInit(inputs, pc) ==
  /\ request = "none"
  /\ abortedAtCall = FALSE
  /\ aborted = FALSE
  /\ netCalls = 0
  /\ UiInit
  /\ tApiKey = TRUE
  /\ tProvider = "openai"
  /\ audioChunks = 0
  /\ workerAvailable \in (IF pc = "entry" THEN BOOLEAN ELSE {TRUE})
  /\ emptyBodyChunk = -1
  /\ faultyChunk = -1
  /\ forceWavPreprocess = TRUE
  /\ \E signalAborted \in (IF pc = "entry" THEN BOOLEAN ELSE {FALSE}) :
       prep = [IdlePrep EXCEPT !.aborted = signalAborted]
  /\ \E input \in inputs :
       /\ rawData = input[1]
       /\ opts = input[2]
  /\ pcm = IF pc = "split" THEN rawData ELSE <<>>
  /\ splitPc = pc
  /\ startSample = 0
  /\ segments = <<>>
  /\ TInit
  /\ eApiKey = TRUE
  /\ eChunks = 0
  /\ abortedStreamReturns = FALSE
  /\ EdInit
  /\ NoTextSplit
  /\ NoWriter
  /\ MainInit

SplitInit ==
  LocalInit((SampleBuffers \X SplitOptions) \cup ScenarioInputs, "split")

SplitNext == SplitIteration /\ UNCHANGED notSplit

SplitSpec == SplitInit /\ [][SplitNext]_vars

(***************************************************************************)
(* CutSpec: the loop of splitAtSilenceToWav for any options with a maximum *)
(* of at least one sample, also a window or a range wider than the         *)
(* maximum; a pass that can run does run.                                  *)
(***************************************************************************)
MaxCutSamples == 7

CutBuffers == UNION {[1 .. n -> SplitLevels] : n \in 0 .. MaxCutSamples}

CutOptions ==
  [maxSamples : {1, 2, 3}, minChunkSamples : {1, 2},
   silenceWindowSamples : {1, 2, 3}, searchRangeSamples : {1, 4},
   trimLongSilence : {FALSE}, minSilenceTrimSamples : {0}]

CutInit == LocalInit(CutBuffers \X CutOptions, "split")

CutSpec == CutInit /\ [][SplitNext]_vars /\ WF_vars(SplitNext)

TrimInit == LocalInit(RawBuffers \X TrimOptions, "entry")

TrimNext ==
  /\ \/ ProcessResampledData
     \/ WorkerPostsResult
     \/ WorkerPostsError
     \/ AbortWhileWorker
     \/ LateWorkerEvent
     \/ ProcessLocally
     \/ SplitIteration
  /\ UNCHANGED notSplit

TrimSpec == TrimInit /\ [][TrimNext]_vars

(***************************************************************************)
(* splitTextIntoChunks on its own: one call, on every text of up to        *)
(* MaxTextLength characters.  MaxChunkLength stands for CHUNK_SIZE (8000). *)
(***************************************************************************)
MaxTextLength == 6
MaxChunkLength == 3

\* a letter, a blank and a line break
TextChars == {"a", " ", "\n"}

Texts == UNION {[1 .. n -> TextChars] : n \in 0 .. MaxTextLength}

\* the index of the first of two adjacent line breaks from i on (0: none)
RECURSIVE ParagraphBreakAt(_, _)
ParagraphBreakAt(s, i) ==
  IF i >= Len(s) THEN 0
  ELSE IF s[i] = "\n" /\ s[i + 1] = "\n" THEN i
  ELSE ParagraphBreakAt(s, i + 1)

\* the index of the first character from i on that is not a line break
RECURSIVE AfterLineBreaks(_, _)
AfterLineBreaks(s, i) ==
  IF i <= Len(s) /\ s[i] = "\n" THEN AfterLineBreaks(s, i + 1) ELSE i

\* text.split(/\n\n+/)
RECURSIVE SplitParagraphs(_)
SplitParagraphs(s) ==
  LET at == ParagraphBreakAt(s, 1)
  IN IF at = 0 THEN <<s>>
     ELSE <<SubSeq(s, 1, at - 1)>>
            \o SplitParagraphs(SubSeq(s, AfterLineBreaks(s, at), Len(s)))

\* the index of the first line break from i on (0: none)
RECURSIVE LineBreakAt(_, _)
LineBreakAt(s, i) ==
  IF i > Len(s) THEN 0
  ELSE IF s[i] = "\n" THEN i
  ELSE LineBreakAt(s, i + 1)

\* para.split('\n')
RECURSIVE SplitLines(_)
SplitLines(s) ==
  LET at == LineBreakAt(s, 1)
  IN IF at = 0 THEN <<s>>
     ELSE <<SubSeq(s, 1, at - 1)>> \o SplitLines(SubSeq(s, at + 1, Len(s)))

\* if (currentChunk.length + piece.length > maxLength
\*     && currentChunk.length > 0) { chunks.push(currentChunk.trim());
\*                                   currentChunk = '' }
FlushIfOver(sp, piece) ==
  IF Len(sp.currentChunk) + Len(piece) > sp.maxLength
     /\ Len(sp.currentChunk) > 0
    THEN [sp EXCEPT !.chunks = Append(@, TrimText(sp.currentChunk)),
                    !.currentChunk = <<>>]
    ELSE sp

\* for (const line of lines): flush, then currentChunk += `${line}\n`
RECURSIVE AddLines(_, _, _)
AddLines(sp, lines, k) ==
  IF k > Len(lines) THEN sp
  ELSE AddLines([FlushIfOver(sp, lines[k])
                   EXCEPT !.currentChunk = @ \o lines[k] \o <<"\n">>],
                lines, k + 1)

\* one pass of the loop over the paragraphs
AddParagraph(sp, para) ==
  LET flushed == FlushIfOver(sp, para)
  IN IF Len(para) > sp.maxLength
       THEN [AddLines(flushed, SplitLines(para), 1)
               EXCEPT !.currentChunk = @ \o <<"\n">>]
       ELSE [flushed EXCEPT !.currentChunk = @ \o para \o <<"\n", "\n">>]

\* the call of splitTextIntoChunks(text, maxLength), before its loop
SplitterAt(text, maxLength) ==
  [pc |-> "loop", text |-> text, maxLength |-> maxLength,
   paragraphs |-> SplitParagraphs(text),
   currentChunk |-> <<>>, chunks |-> <<>>]

\* for (const para of paragraphs): one pass
SplitTextParagraph ==
  /\ splitter.pc = "loop"
  /\ splitter.paragraphs /= <<>>
  /\ splitter' = [AddParagraph(splitter, Head(splitter.paragraphs))
                    EXCEPT !.paragraphs = Tail(splitter.paragraphs)]

\* if (currentChunk.trim()) chunks.push(currentChunk.trim()); return chunks
SplitTextReturn ==
  /\ splitter.pc = "loop"
  /\ splitter.paragraphs = <<>>
  /\ splitter' =
       [splitter EXCEPT
          !.pc = "returned",
          !.currentChunk = <<>>,
          !.chunks = IF TrimText(splitter.currentChunk) /= <<>>
                       THEN Append(@, TrimText(splitter.currentChunk))
                       ELSE @]

notTextSplit == <<callVars, sigVars, uiVars, tVars, eApiKey, eChunks,
                  abortedStreamReturns, writer, ed, mainVars>>

TextInit ==
  /\ request = "none"
  /\ abortedAtCall = FALSE
  /\ aborted = FALSE
  /\ netCalls = 0
  /\ UiInit
  /\ tApiKey = TRUE
  /\ tProvider = "openai"
  /\ audioChunks = 0
  /\ workerAvailable = TRUE
  /\ emptyBodyChunk = -1
  /\ faultyChunk = -1
  /\ forceWavPreprocess = TRUE
  /\ NoSplit
  /\ TInit
  /\ eApiKey = TRUE
  /\ eChunks = 0
  /\ abortedStreamReturns = FALSE
  /\ EdInit
  /\ MainInit
  /\ NoWriter
  /\ \E text \in Texts : splitter = SplitterAt(text, MaxChunkLength)

TextNext ==
  /\ \/ SplitTextParagraph
     \/ SplitTextReturn
  /\ UNCHANGED notTextSplit

TextSpec == TextInit /\ [][TextNext]_vars

(***************************************************************************)
(* streamEditToFile and createStreamFileWriter on their own.  A text is a  *)
(* number: 0 is the empty text the edited file is created with, k the      *)
(* k-th text handed to onPartialText; the last one is the final note.      *)
(***************************************************************************)
MaxPushes == 4

\* A variant of ClearTimeout that leaves the timer pending.
LeaveTimer(timer) == timer

\* flush: if (timer !== null) { window.clearTimeout(timer); timer = null }
ClearTimeout(timer) == FALSE

\* push(content): latestContent = content; a timer is set unless one is
\* pending
WriterPush(w, content) ==
  [w EXCEPT !.latestContent = content, !.timer = TRUE, !.pushes = @ + 1]

\* flush() up to `await inFlight`: the chain's callbacks that have not settled
WriterFlush(w) ==
  [w EXCEPT !.timer = ClearTimeout(w.timer),
            !.awaited = w.queued + (IF w.running THEN 1 ELSE 0),
            !.pc = "flushWait"]

\* the updateText calls in flight, without the k-th
WithoutWrite(writing, k) ==
  SubSeq(writing, 1, k - 1) \o SubSeq(writing, k + 1, Len(writing))

\* streamEditToFile after saveTextWithName(''): the edit is running
WriterAtStart == [IdleWriter EXCEPT !.pc = "editing"]

\* onPartialText: writer.push(partial)
OnPartialText ==
  /\ writer.pc = "editing"
  /\ writer.pushes < MaxPushes - 1
  /\ writer' = WriterPush(writer, writer.pushes + 1)

\* the timer's callback: timer = null; inFlight = inFlight.then(flushNow)
TimerFires ==
  /\ writer.timer
  /\ writer' = [writer EXCEPT !.timer = FALSE, !.queued = @ + 1]

\* the chain reaches a callback: flushNow reads latestContent and calls
\* updateText
ChainFlushNow ==
  /\ writer.queued > 0
  /\ ~writer.running
  /\ writer' = [writer EXCEPT
       !.queued = @ - 1,
       !.running = TRUE,
       !.writing = Append(@, [by |-> "chain",
                              content |-> writer.latestContent])]

\* editWithTwoStageStreaming hands the final note to onPartialText and
\* resolves with it; the finally block calls writer.flush()
EditResolves ==
  /\ writer.pc = "editing"
  /\ LET final == writer.pushes + 1
     IN writer' = WriterFlush([WriterPush(writer, final)
                                 EXCEPT !.finalText = final])

\* editWithTwoStageStreaming rejects; the finally block calls writer.flush()
EditRejects ==
  /\ writer.pc = "editing"
  /\ writer' = WriterFlush(writer)

\* flush: `await inFlight` is over; flushNow reads latestContent and calls
\* updateText
FlushNowAfterInFlight ==
  /\ writer.pc = "flushWait"
  /\ writer.awaited = 0
  /\ writer' = [writer EXCEPT
       !.pc = "flushWrite",
       !.writing = Append(@, [by |-> "flush",
                              content |-> writer.latestContent])]

\* an updateText call settles: the file has the content unless the call
\* failed.  The chain logs a failure and goes on; flush's failure is logged
\* and streamEditToFile throws without a final text or writes it; the final
\* updateText ends streamEditToFile.
UpdateTextSettles ==
  /\ \E k \in 1 .. Len(writer.writing) : \E ok \in BOOLEAN :
       LET write == writer.writing[k]
           rest == WithoutWrite(writer.writing, k)
           file == IF ok THEN write.content ELSE writer.file
       IN writer' =
            IF write.by = "chain"
              THEN [writer EXCEPT !.file = file, !.writing = rest,
                                  !.streamed = IF ok THEN @ + 1 ELSE @,
                                  !.running = FALSE,
                                  !.awaited = IF @ > 0 THEN @ - 1 ELSE 0]
            ELSE IF write.by = "flush"
              THEN IF writer.finalText = 0
                     THEN [writer EXCEPT !.file = file, !.writing = rest,
                                         !.pc = "threw"]
                     ELSE [writer EXCEPT
                             !.file = file,
                             !.pc = "finalWrite",
                             !.writing =
                               Append(rest, [by |-> "final",
                                             content |-> writer.finalText])]
            ELSE [writer EXCEPT !.file = file, !.writing = rest,
                                !.pc = IF ok THEN "returned" ELSE "threw"]

notWriter == <<callVars, sigVars, uiVars, tVars, eApiKey, eChunks,
               abortedStreamReturns, splitter, ed, mainVars>>

WriterInit ==
  /\ request = "none"
  /\ abortedAtCall = FALSE
  /\ aborted = FALSE
  /\ netCalls = 0
  /\ UiInit
  /\ tApiKey = TRUE
  /\ tProvider = "openai"
  /\ audioChunks = 0
  /\ workerAvailable = TRUE
  /\ emptyBodyChunk = -1
  /\ faultyChunk = -1
  /\ forceWavPreprocess = TRUE
  /\ NoSplit
  /\ TInit
  /\ eApiKey = TRUE
  /\ eChunks = 0
  /\ abortedStreamReturns = FALSE
  /\ EdInit
  /\ MainInit
  /\ NoTextSplit
  /\ writer = WriterAtStart

WriterNext ==
  /\ \/ OnPartialText
     \/ TimerFires
     \/ ChainFlushNow
     \/ EditResolves
     \/ EditRejects
     \/ FlushNowAfterInFlight
     \/ UpdateTextSettles
  /\ UNCHANGED notWriter

WriterSpec == WriterInit /\ [][WriterNext]_vars

(***************************************************************************)
(* Properties of the plugin's task controller, checked under Spec.         *)
(***************************************************************************)
\* C2: at most one handler is between beginTask and endTask, and it owns the
\* controller; while a controller is set it is never replaced; a start that
\* finds a task running only shows the notice: it starts nothing, queues
\* nothing and leaves the controller, the signal and the running task as
\* they are.
C2_SingleFlight ==
  /\ [](/\ running <= 1
        /\ running = 1 <=> activeTaskController /= 0
        /\ running = 1 <=> task.pc /= "idle")
  /\ [][/\ activeTaskController /= 0 =>
             activeTaskController' \in {activeTaskController, 0}
        /\ notices'["noticeTaskAlreadyRunning"]
             > notices["noticeTaskAlreadyRunning"] =>
               /\ activeTaskController /= 0
               /\ UNCHANGED <<callVars, sigVars, uiVars, tVars, eVars,
                              activeTaskController, running, task, outcome,
                              cancelCalls>>]_vars

\* a start was rejected while a handler is running
C2_StartRejectedWhileRunning ==
  /\ running = 1
  /\ task.pc /= "idle"
  /\ notices["noticeTaskAlreadyRunning"] = 1

\* the error the handler is about to catch, if a service call has rejected
CaughtServiceError ==
  IF task.pc = "transcribe" /\ tpc = "rejected" THEN tErr
  ELSE IF task.pc = "flush" /\ ed.pc = "rejected" THEN ed.err
  ELSE NoError

\* C15: with Gemini, the generation request for a chunk is issued only after
\* the uploaded file was observed in a state that is neither PROCESSING nor
\* FAILED; a file still PROCESSING when more than ten minutes have passed
\* since polling began, or observed FAILED, makes the chunk operation fail
\* with the timeout or the failure error, and no generation request is issued
\* for the chunk.
C15_GenerateOnlyWhenReady ==
  /\ [](\A r \in Runners :
          LET rec == runners[r] IN
          /\ rec.stage = "generate" => rec.fileState = "ACTIVE"
          /\ (/\ rec.fileState = "PROCESSING"
              /\ rec.elapsed > GEMINI_FILE_PROCESSING_TIMEOUT_MS)
             => /\ rec.pc \in {"delete", "threw"}
                /\ rec.err = ProcessingTimeoutError(rec.index + 1)
          /\ rec.fileState = "FAILED"
             => /\ rec.pc \in {"delete", "threw"}
                /\ rec.err = ProcessingFailedError(rec.index + 1)
          /\ rec.fileState = "PROCESSING"
             => rec.pc \in {"pollSleep", "get", "delete", "threw"})
  /\ [][\A r \in Runners :
          (runners'[r].pc = "generate" /\ runners[r].pc /= "generate")
          => /\ runners[r].pc \in {"upload", "get", "retrySleep"}
             /\ runners'[r].fileState = "ACTIVE"
             /\ netCalls' = netCalls + 1]_vars

\* a file was still PROCESSING past the ceiling and the chunk failed with the
\* timeout error, without a generation request
C15_ProcessingTimedOut ==
  \E r \in Runners :
    /\ runners[r].pc = "threw"
    /\ runners[r].err = ProcessingTimeoutError(runners[r].index + 1)
    /\ runners[r].elapsed > GEMINI_FILE_PROCESSING_TIMEOUT_MS
    /\ runners[r].stage = "upload"
    /\ tpc = "rejected"

\* the runner's worker settles in this step
WorkerSettles(r) ==
  /\ r \in BusyRunners
  /\ \/ runners'[r].pc \in {"threw", "returned"}
     \/ runners'[r].index /= runners[r].index

\* C16: with Gemini, once the upload of a chunk has returned a file with a
\* name, the chunk operation settles only from the delete request of that
\* file, whatever the outcome was; and however the delete settles, the
\* operation then rejects with the error it had, or its text is the chunk's
\* result.
C16_DeleteBeforeSettling ==
  [][\A r \in Runners :
       LET rec == runners[r] IN
       /\ (rec.handle /\ WorkerSettles(r)) => rec.pc = "delete"
       /\ (rec.pc /= "delete" /\ runners'[r].pc = "delete")
          => /\ runners'[r].handle
             /\ netCalls' = netCalls + 1
       /\ (rec.pc = "delete" /\ runners'[r] /= rec)
          => /\ WorkerSettles(r)
             /\ IF rec.err /= NoError
                  THEN /\ runners'[r].pc = "threw"
                       /\ runners'[r].err = rec.err
                       /\ results' = results
                  ELSE /\ results' = [results EXCEPT ![rec.index] = rec.text]
                       /\ rec.text = ResponseBody(rec.index)]_vars

\* the delete of a chunk's file failed, the chunk's text is its result and
\* transcribe() resolved
C16_DeleteFailedResultKept ==
  \E r \in Runners :
    /\ runners[r].warned
    /\ runners[r].pc = "returned"
    /\ results[runners[r].index] = ChunkText(runners[r].index)
    /\ tpc = "resolved"

\* C17: in the OpenAI variant a chunk whose response body is empty is never
\* accepted as a chunk result: no chunk that completed has the empty string at
\* its position of the results.
C17_EmptyBodyIsAnError ==
  tProvider = "openai" =>
    \A k \in 1 .. Len(completionOrder) : results[completionOrder[k]] /= <<>>

\* the buffer holds no silent sample
NoSilence(data) == \A j \in 0 .. (Len(data) - 1) : ~IsSilent(data, j)

\* ceil(d / m)
CeilDiv(d, m) == (d + m - 1) \div m

C18_CancelledIsNotAnError ==
  /\ [][(aborted /\ CaughtServiceError = AbortError /\ task'.pc = "idle") =>
          /\ outcome' = "cancelled"
          /\ notices'["noticeTaskCancelled"] >= 1
          /\ notices'["noticeError"] = 0
          /\ notices'["noticeErrorEditing"] = 0]_vars
  /\ [](outcome = "cancelled" =>
          /\ notices["noticeError"] = 0
          /\ notices["noticeErrorEditing"] = 0)

\* a run was cancelled by the user and has ended
C18_RunCancelledByUser ==
  /\ outcome = "cancelled"
  /\ task.pc = "idle"
  /\ aborted
  /\ cancelCalls >= 1
  /\ notices["noticeTaskCancelled"] >= 1

\* C19: a finished run has shown exactly one notice of its terminal outcome:
\* one cancellation notice when it was cancelled, one error notice when it
\* failed, and one saved notice per file written (at least one) when it
\* succeeded.
C19_OneTerminalNotice ==
  (task.pc = "idle" /\ outcome /= "none") =>
    /\ outcome = "cancelled" => notices["noticeTaskCancelled"] = 1
    /\ outcome = "error" =>
         notices["noticeError"] + notices["noticeErrorEditing"] = 1
    /\ outcome = "success" =>
         /\ notices["noticeRawTranscriptSaved"] <= 1
         /\ notices["noticeEditedTranscriptSaved"] <= 1
         /\ notices["noticeRawTranscriptSaved"]
              + notices["noticeEditedTranscriptSaved"] >= 1

\* C9, as a property of the finished run: when cancelActiveTask took effect
\* during a run, aborted calls reject and no other failure ended the run, the
\* run ends with the cancellation outcome.
C9_CancelledRunEndsCancelled ==
  (/\ ~abortedStreamReturns
   /\ task.pc = "idle"
   /\ outcome \notin {"none", "error"}
   /\ notices["noticeTaskCancelled"] >= 1) => outcome = "cancelled"

\* C10: a cancelActiveTask call that finds no controller, or a controller
\* whose signal is already aborted, changes nothing: no abort, no status
\* update, no notice.
C10_CancelIdempotent ==
  [][(cancelCalls' /= cancelCalls /\ (activeTaskController = 0 \/ aborted)) =>
       UNCHANGED <<callVars, sigVars, uiVars, tVars, eVars,
                   activeTaskController, running, task, notices,
                   outcome>>]_vars

\* cancelActiveTask was called a second time on the same run
C10_SecondCancelOnSameRun ==
  /\ cancelCalls = 2
  /\ running = 1
  /\ aborted
  /\ notices["noticeTaskCancelled"] = 1


(***************************************************************************)
(* Properties of the transcriber, checked under SvcSpec.                   *)
(***************************************************************************)
\* chunk k's operation failed for good: its runner threw the error withRetries
\* builds after the last attempt
PermanentlyFailed(k) ==
  \E r \in Runners :
    /\ runners[r].pc = "threw"
    /\ runners[r].index = k
    /\ runners[r].err = RetriesExhaustedError(k + 1)

IsPrefix(s, t) == Len(s) <= Len(t) /\ s = SubSeq(t, 1, Len(s))

\* C1: with N >= 1 chunks whose calls all succeed, in whatever order the
\* concurrent calls complete, transcribe returns the chunk texts joined with a
\* newline in chunk index order, then trimmed.
C1_OrderPreserved ==
  (tpc = "resolved" /\ nChunks >= 1) =>
    tResult = TrimText(Join([i \in 0 .. (nChunks - 1) |-> ResponseBody(i)],
                            nChunks, <<"\n">>))

\* a call over MaxChunks chunks resolved although chunk 0 was not the first
\* to complete
C1_OutOfOrderCompletion ==
  /\ tpc = "resolved"
  /\ nChunks = MaxChunks
  /\ completionOrder[1] /= 0

\* C3, as stated: an entry point called with an already-aborted signal
\* rejects with the cancellation error and the network-call counter stays 0.
C3_PreAbortedRejectsWithCancellation ==
  abortedAtCall =>
    /\ netCalls = 0
    /\ tpc /= "idle" => (tpc = "rejected" /\ isAbortError(tErr))
    /\ ed.pc /= "idle" => (ed.pc = "rejected" /\ isAbortError(ed.err))

\* C3, amended: an entry point called with an already-aborted signal issues
\* no network call and rejects, with the cancellation error when the
\* credential is set and with the configuration error when it is empty (the
\* credential is checked first).
C3_PreAbortedFailsFast ==
  abortedAtCall =>
    /\ netCalls = 0
    /\ tpc /= "idle" =>
         /\ tpc = "rejected"
         /\ tErr = IF tApiKey THEN AbortError ELSE MkError("ConfigError", 0)
    /\ ed.pc /= "idle" =>
         /\ ed.pc = "rejected"
         /\ ed.err = IF eApiKey THEN AbortError ELSE MkError("ConfigError", 0)

\* an entry point with its credential set was called with an aborted signal
\* and has rejected
C3_PreAbortedCallRejected ==
  /\ abortedAtCall
  /\ \/ tpc = "rejected" /\ tApiKey
     \/ ed.pc = "rejected" /\ eApiKey

\* C11: with an empty credential an entry point rejects with the
\* configuration error in its synchronous prefix: the call never reaches a
\* decode, preprocessing or request position, no request is ever issued and
\* no attempt, retry or backoff sleep is made for it.
C11_EmptyCredentialFailsFirst ==
  /\ ~tApiKey =>
       /\ tpc \in {"idle", "rejected"}
       /\ tpc = "rejected" => tErr = ConfigError
       /\ netCalls = 0
       /\ \A i \in ChunkIndexes : attempts[i] = 0 /\ delays[i] = <<>>
       /\ \A r \in Runners : runners[r].pc = "none"
  /\ ~eApiKey =>
       /\ ed.pc \in {"idle", "rejected"}
       /\ ed.pc = "rejected" => ed.err = ConfigError
       /\ ed.calls = 0
       /\ netCalls = 0

\* an entry point was called with an empty credential and a live signal, and
\* has rejected
C11_RejectedForMissingCredential ==
  /\ ~abortedAtCall
  /\ request = "none"
  /\ \/ ~tApiKey /\ tpc = "rejected"
     \/ ~eApiKey /\ ed.pc = "rejected"

C5_ThreeAttemptsWithBackoff ==
  /\ [](\A k \in ChunkIndexes :
          /\ attempts[k] <= 3
          /\ IsPrefix(delays[k], <<500, 1000>>)
          /\ attempts[k] >= 1 => Len(delays[k]) \in {attempts[k] - 1, attempts[k]}
          /\ PermanentlyFailed(k) =>
               attempts[k] = 3 /\ delays[k] = <<500, 1000>>)
  /\ [][\A k \in ChunkIndexes :
          results[k] /= <<>> => attempts'[k] = attempts[k]]_vars

\* a chunk failed for good after three attempts while another chunk succeeded
\* on a retry
C5_ExhaustedAndRetried ==
  /\ \E k \in ChunkIndexes : PermanentlyFailed(k) /\ attempts[k] = 3
  /\ \E j \in ChunkIndexes : results[j] /= <<>> /\ attempts[j] = 2

\* C6: a cancellation is never retried and keeps its identity.  In withRetries
\* and in generateContent, an attempt that failed with a cancellation error
\* makes the call throw that very error; the "failed after N attempts" error
\* never wraps a cancellation; and once the signal is aborted no attempt is
\* made, a pending backoff sleep ending with the cancellation error.
C6_CancellationNeverRetried ==
  /\ [](\A r \in Runners :
          /\ isAbortError(runners[r].failure) =>
               runners[r].pc = "threw" /\ runners[r].err = runners[r].failure
          /\ runners[r].err.kind = "RetriesExhausted" =>
               ~isAbortError(runners[r].failure))
  /\ [](/\ isAbortError(ed.lastErr) =>
             ed.pc = "rejected" /\ ed.err = ed.lastErr
        /\ ed.err.kind = "RetriesExhausted" => ~isAbortError(ed.lastErr))
  /\ [][/\ mergedAborted => attempts' = attempts
        /\ \A r \in Runners :
             (runners[r].pc = "sleep" /\ mergedAborted /\ runners'[r] /= runners[r])
               => (runners'[r].pc = "threw" /\ runners'[r].err = AbortError)
        /\ (aborted /\ ed.pc \in {"call", "sleep"} /\ ed' /= ed) =>
             /\ ed'.calls = ed.calls
             /\ ed'.pc = "rejected"
             /\ ed'.err = AbortError]_vars

\* a backoff sleep was cut short by the abort: the chunk was attempted once
\* and its runner threw the abort error
C6_SleepCutShort ==
  \E r \in Runners :
    /\ runners[r].pc = "threw"
    /\ runners[r].err = AbortError
    /\ attempts[runners[r].index] = 1
    /\ Len(delays[runners[r].index]) = 1

(***************************************************************************)
(* Properties of the editor, checked under SvcSpec.                        *)
(***************************************************************************)
\* what chunk k contributes to the transcript part
ExpectedChunk(k) ==
  IF ed.failed[k] = 1 + MAX_RETRIES
    THEN RawChunkText(k)
    ELSE TrimText(ed.outputs[k])

\* C7: when the streamed call and every non-streamed attempt of Stage-2 chunk
\* k have failed, the chunk's raw text stands at position k of the results,
\* the call can no longer fail except by cancellation, and the document it
\* resolves with has the raw text at that position among the other chunks'
\* outputs.
C7_FailedChunkKeepsRawText ==
  /\ \A k \in TextChunkIndexes :
       (k < eChunks /\ ed.failed[k] = 1 + MAX_RETRIES) =>
         /\ Len(ed.results) > k
         /\ ed.results[k + 1] = RawChunkText(k)
         /\ ed.pc = "rejected" => isAbortError(ed.err)
  /\ ed.pc = "resolved" =>
       ed.result =
         combineParts(ed.summaryPart,
                      TrimText(Join([k \in 0 .. (eChunks - 1) |-> ExpectedChunk(k)],
                                    eChunks, ParagraphBreak)))

\* the call resolved over several chunks, the first of which failed on every
\* attempt while the next one was reformatted
C7_ResolvedWithDegradedChunk ==
  /\ ed.pc = "resolved"
  /\ eChunks >= 2
  /\ ed.failed[0] = 1 + MAX_RETRIES
  /\ ed.outputs[1] /= <<>>

\* C12: at every moment of a transcription the number of chunk operations in
\* flight is at most the provider's pool size (3 for OpenAI, 2 for Gemini) and
\* at most the number of chunks; the runners in flight hold different chunks;
\* and a chunk handed to a runner is the next index, never one handed before.
C12_PoolBounded ==
  /\ [](/\ Cardinality(BusyRunners) <=
             (IF tProvider = "gemini" THEN GEMINI_TRANSCRIBE_CONCURRENCY
              ELSE DEFAULT_TRANSCRIBE_CONCURRENCY)
        /\ Cardinality(BusyRunners) <= nChunks
        /\ \A p, q \in BusyRunners :
             p /= q => runners[p].index /= runners[q].index
        /\ \A p \in BusyRunners : runners[p].index < nextIndex)
  /\ [][/\ nextIndex' >= nextIndex
        /\ \A r \in Runners :
             (/\ r \in BusyRunners'
              /\ r \notin BusyRunners \/ runners'[r].index /= runners[r].index)
             => /\ runners'[r].index >= nextIndex
                /\ runners'[r].index < nextIndex']_vars

\* with Gemini and three chunks, two workers are in flight, one of them on
\* the third chunk, and the third runner was never started
C12_GeminiPoolFull ==
  /\ tProvider = "gemini"
  /\ nChunks = 3
  /\ nextIndex = 3
  /\ Cardinality(BusyRunners) = GEMINI_TRANSCRIBE_CONCURRENCY
  /\ runners[3].pc = "none"

C14_OneFallbackRequest ==
  ed.stage = "summary" => ed.calls <= 2

\* C14, amended: a Stage-1 streamed call that failed with an error that is
\* not a cancellation is followed by one call of the non-streamed
\* generateContent, which issues between one and MAX_RETRIES requests; the
\* text it returns is the summary and is the partial text emitted; when its
\* last attempt fails the editing call rejects; a cancellation error from
\* the streamed call rejects the editing call without a further request.
C14_SummaryFallsBackOnce ==
  /\ [](ed.stage = "summary" =>
          /\ ed.calls = 0 => ed.pc \in {"idle", "rejected"} /\ ed.attempt = 0
          /\ ed.calls > 0 => ed.calls = 1 + ed.attempt
          /\ ed.attempt <= MAX_RETRIES
          /\ ed.pc = "rejected" =>
               \/ isAbortError(ed.err)
               \/ ed.err = ConfigError
               \/ ed.err = RetriesExhaustedError(0) /\ ed.attempt = MAX_RETRIES)
  /\ [][ed.stage = "summary" =>
          /\ (ed.attempt = 0 /\ ed'.attempt = 1) =>
               /\ ed.pc \in {"streamOpen", "streaming"}
               /\ ed'.lastErr /= NoError
               /\ ~isAbortError(ed'.lastErr)
          /\ (ed.pc \in {"streamOpen", "streaming"}
               /\ isAbortError(ed'.lastErr)) =>
               /\ ed'.pc = "rejected"
               /\ ed'.calls = ed.calls
          /\ (ed.pc = "call" /\ ed'.summaryPart /= ed.summaryPart) =>
               /\ ed'.summaryPart = ResponseText(PromptOf("summary", 0))
               /\ ed'.lastPartial = ed'.summaryPart]_vars

\* the non-streamed summary call is at its second request
C14_FallbackRetried ==
  /\ ed.stage = "summary"
  /\ ed.pc = "call"
  /\ ed.attempt = 2

\* C8, as stated: once the signal is aborted during editWithTwoStageStreaming
\* no further model call is started, and the call ends by rejecting with the
\* cancellation error, never by resolving.
C8_AbortStopsEditing ==
  [][(aborted /\ ed.pc \notin {"idle", "resolved", "rejected"}) =>
       /\ ed'.calls = ed.calls
       /\ ed'.pc /= "resolved"
       /\ ed'.pc = "rejected" => isAbortError(ed'.err)]_vars



(***************************************************************************)
(* Where Split cuts.  The properties below speak about one pass of the    *)
(* loop: startSample is where the segment starts, startSample' where it   *)
(* ends.                                                                   *)
(***************************************************************************)
\* every sample j of the buffer with a <= j < c is at or below the threshold
Quiet(a, c) ==
  \A j \in a .. (c - 1) : Abs(pcm[j + 1]) <= SILENCE_THRESHOLD

\* the naive window end of the pass that starts at startSample
NaiveBoundary == startSample + opts.maxSamples

\* a pass whose naive window end is not the buffer end
InteriorPass ==
  /\ splitPc = "split"
  /\ startSample < Len(pcm)
  /\ NaiveBoundary < Len(pcm)

\* where the backward search finds a silent window of the full width
BackwardHits ==
  {i \in Max(opts.silenceWindowSamples,
             NaiveBoundary - opts.searchRangeSamples) .. NaiveBoundary :
     Quiet(i - opts.silenceWindowSamples, i)}

\* where a silent window of the full width starts ahead of the boundary
FullForwardHits ==
  {i \in NaiveBoundary ..
         (Min(Len(pcm), NaiveBoundary + opts.searchRangeSamples) - 1) :
     /\ i + opts.silenceWindowSamples <= Len(pcm)
     /\ Quiet(i, i + opts.silenceWindowSamples)}

\* the length of the maximal silent run that holds the samples on either
\* side of the naive boundary
StraddlingRun ==
  Cardinality({k \in 0 .. (Len(pcm) - 1) :
                 Quiet(Min(k, NaiveBoundary - 1), Max(k, NaiveBoundary) + 1)})

\* C21 (as stated): whenever a silent window at least silenceWindowSamples
\* wide straddles the naive boundary, the cut lies inside that window and is
\* not the naive boundary.
C21_CutInsideStraddlingWindow ==
  [][(/\ InteriorPass
      /\ Quiet(NaiveBoundary - 1, NaiveBoundary + 1)
      /\ StraddlingRun >= opts.silenceWindowSamples)
     => (/\ startSample' /= NaiveBoundary
         /\ Quiet(Min(startSample', NaiveBoundary - 1),
                  Max(startSample' + 1, NaiveBoundary + 1)))]_vars

\* C21 (amended): whenever the silenceWindowSamples samples just behind the
\* naive boundary are silent, the cut is the first of them: a sample inside
\* the silent window, silent up to the boundary, and not the boundary itself.
C21_CutAtWindowBehindBoundary ==
  [][(InteriorPass
      /\ Quiet(NaiveBoundary - opts.silenceWindowSamples, NaiveBoundary))
     => (/\ startSample' = NaiveBoundary - opts.silenceWindowSamples
         /\ startSample' /= NaiveBoundary
         /\ Quiet(startSample', NaiveBoundary))]_vars

\* the first pass cut inside a silent window that straddles its boundary
C21_CutInStraddlingWindow ==
  /\ splitPc = "split"
  /\ opts.maxSamples < Len(pcm)
  /\ Quiet(opts.maxSamples - opts.silenceWindowSamples, opts.maxSamples + 1)
  /\ Len(segments) = 1
  /\ segments[1].from = 0
  /\ segments[1].to = opts.maxSamples - opts.silenceWindowSamples
  /\ startSample = segments[1].to

\* C22: the backward search wins whenever it finds a window, and then the cut
\* is the start of the window nearest the boundary; a cut at or ahead of the
\* boundary happens only when the backward search finds nothing; with nothing
\* behind, the first full window ahead is the cut; the naive boundary is cut
\* mid-signal only when both searches find nothing.
C22_BackwardPreferred ==
  [][InteriorPass =>
       /\ BackwardHits /= {} =>
            /\ startSample' + opts.silenceWindowSamples \in BackwardHits
            /\ \A k \in BackwardHits :
                 k <= startSample' + opts.silenceWindowSamples
       /\ startSample' >= NaiveBoundary => BackwardHits = {}
       /\ (BackwardHits = {} /\ FullForwardHits /= {}) =>
            /\ startSample' \in FullForwardHits
            /\ \A k \in FullForwardHits : startSample' <= k
       /\ (/\ startSample' = NaiveBoundary
           /\ ~Quiet(NaiveBoundary,
                     Min(NaiveBoundary + opts.silenceWindowSamples, Len(pcm))))
          => (BackwardHits = {} /\ FullForwardHits = {})]_vars

\* the first pass had a silent window on either side of its boundary and cut
\* at the one behind
C22_BothSidesSilentCutBehind ==
  /\ splitPc = "split"
  /\ opts.maxSamples + opts.silenceWindowSamples <= Len(pcm)
  /\ Quiet(opts.maxSamples, opts.maxSamples + opts.silenceWindowSamples)
  /\ ~Quiet(opts.maxSamples - 1, opts.maxSamples)
  /\ Len(segments) = 1
  /\ segments[1].from = 0
  /\ segments[1].to < opts.maxSamples - opts.silenceWindowSamples
  /\ startSample = segments[1].to


\* C25: a pass emits its segment if and only if the segment has at least
\* minChunkSamples samples; a segment below the floor is dropped, and it is
\* the trailing one (it ends where the buffer ends); every emitted segment
\* has at least minChunkSamples samples, so the emitted count is the number
\* of passes less the dropped trailing fragment.
C25_OnlyShortTailDropped ==
  [][(splitPc = "split" /\ startSample < Len(pcm)) =>
       /\ startSample' - startSample >= opts.minChunkSamples =>
            segments' = Append(segments,
                               [from |-> startSample, to |-> startSample'])
       /\ startSample' - startSample < opts.minChunkSamples =>
            (segments' = segments /\ startSample' = Len(pcm))
       /\ \A k \in 1 .. Len(segments') :
            segments'[k].to - segments'[k].from >= opts.minChunkSamples]_vars

\* the buffer was cut at a silence, and the fragment behind the last emitted
\* segment was dropped
C25_TailDroppedAfterSilenceCut ==
  /\ SplitDone
  /\ Len(segments) >= 2
  /\ segments[Len(segments)].to < Len(pcm)
  /\ \E k \in 1 .. Len(segments) : segments[k].to % opts.maxSamples /= 0

\* C27 (as stated): every emitted chunk has at most maxSamples samples.
C27_ChunkAtMostMaxSamples ==
  splitPc = "split" =>
    \A k \in 1 .. Len(segments) :
      segments[k].to - segments[k].from <= opts.maxSamples

\* C28 (as stated): a cut that is not the naive window end is the first
\* sample of silenceWindowSamples contiguous silent samples of the buffer.
C28_CutStartsFullSilentWindow ==
  [][(InteriorPass /\ startSample' /= NaiveBoundary) =>
       (/\ startSample' + opts.silenceWindowSamples <= Len(pcm)
        /\ Quiet(startSample', startSample' + opts.silenceWindowSamples))]_vars


(***************************************************************************)
(* Trim, checked under TrimSpec.                                           *)
(***************************************************************************)
\* sample j (from 1) of the raw buffer is at or below the threshold
RawSilent(j) == Abs(rawData[j]) <= SILENCE_THRESHOLD

\* the length of the maximal silent run of the raw buffer that holds sample j
RunLength(j) ==
  Cardinality({k \in 1 .. Len(rawData) :
                 \A x \in Min(j, k) .. Max(j, k) : RawSilent(x)})

\* the samples Trim is to keep: the loud ones and the silent runs shorter
\* than minSilenceTrimSamples
KeptSamples ==
  {j \in 1 .. Len(rawData) :
     ~RawSilent(j) \/ RunLength(j) < opts.minSilenceTrimSamples}

\* the samples to keep, in order
ExpectedTrim ==
  [k \in 1 .. Cardinality(KeptSamples) |->
     rawData[CHOOSE j \in KeptSamples :
               Cardinality({x \in KeptSamples : x <= j}) = k]]

\* Trim has run
Trimmed == splitPc = "split" /\ opts.trimLongSilence

\* C23 (as stated): the output of Trim is the input without its silent runs
\* of at least minSilenceTrimSamples samples: every loud sample and every
\* shorter silent run is kept, in order, wherever the run lies.
C23_TrimRemovesExactlyLongRuns ==
  Trimmed => pcm = ExpectedTrim

\* C24: trimming the output of Trim again gives the same samples.
C24_TrimIdempotent ==
  Trimmed => trimSilence(pcm, opts.minSilenceTrimSamples) = pcm

\* Trim removed a long silent run and kept a short one
C24_TrimmedLongKeptShort ==
  /\ Trimmed
  /\ \E j \in 1 .. Len(rawData) :
       RawSilent(j) /\ RunLength(j) >= opts.minSilenceTrimSamples
  /\ \E j \in 1 .. Len(pcm) : Abs(pcm[j]) <= SILENCE_THRESHOLD


(***************************************************************************)
(* The 25-minute scenario, checked under SplitSpec.                        *)
(***************************************************************************)
\* Split has finished on the scenario's buffer with gaps placed by lead
ScenarioDone(lead) ==
  /\ SplitDone
  /\ opts = ScenarioOptions
  /\ Len(pcm) = Samples(15000)
  /\ \A j \in 0 .. (Len(pcm) - 1) :
       InGap(j, lead) <=> Abs(pcm[j + 1]) <= SILENCE_THRESHOLD

\* every emitted chunk has at least minChunkSamples samples
NoChunkBelowFloor ==
  \A k \in 1 .. Len(segments) :
    segments[k].to - segments[k].from >= opts.minChunkSamples

\* C26 (as stated): the scenario yields exactly 2 chunks, the boundary
\* between them lies in a silent gap, and neither chunk is below the floor.
C26_TwoChunksCutInGaps ==
  \A lead \in GapLeads :
    ScenarioDone(lead) =>
      /\ Len(segments) = 2
      /\ segments[1].to = segments[2].from
      /\ InGap(segments[1].to, lead) \/ InGap(segments[1].to - 1, lead)
      /\ NoChunkBelowFloor

\* C26 (amended): the scenario yields exactly 2 chunks that cover the buffer,
\* neither below the floor; the boundary between them is the naive 15-minute
\* boundary, with tone on either side of it.
C26_TwoChunksCutAtNaiveBoundary ==
  \A lead \in GapLeads :
    ScenarioDone(lead) =>
      /\ Len(segments) = 2
      /\ segments[1] = [from |-> 0, to |-> opts.maxSamples]
      /\ segments[2] = [from |-> opts.maxSamples, to |-> Len(pcm)]
      /\ ~InGap(opts.maxSamples, lead) /\ ~InGap(opts.maxSamples - 1, lead)
      /\ NoChunkBelowFloor

\* Split has finished on the scenario with the gaps starting at their marks
C26_ScenarioSplit ==
  ScenarioDone(0) /\ Len(segments) > 0


(***************************************************************************)
(* The worker path of preprocessing, checked under TrimSpec.               *)
(***************************************************************************)
\* the chunks the trim/split algorithm gives for the raw buffer
AlgorithmChunks == SplitAll(WorkerData(rawData, opts), opts, 0, <<>>)

\* C29: preprocessing throws only on cancellation, and then the abort error;
\* without a Worker, or after the worker failed to start or reported an
\* error, the local algorithm runs on the calling context and its chunks are
\* the result; a cancellation on the worker path is thrown without running
\* the local algorithm; finish() settles the promise at most once, and the
\* worker is terminated exactly when it has.
C29_FallbackToLocal ==
  /\ splitPc = "rejected" => (prep.aborted /\ prep.err = AbortError)
  /\ (prep.outcome \in {"error", "startFailed"}
      \/ (~workerAvailable /\ ~prep.aborted /\ splitPc /= "entry"))
     => (/\ splitPc \in {"trim", "split"}
         /\ SplitDone => segments = AlgorithmChunks)
  /\ prep.outcome = "abort"
     => (/\ splitPc = "rejected"
         /\ pcm = <<>> /\ segments = <<>>)
  /\ prep.settlements <= 1
  /\ (prep.worker = "terminated") <=> (prep.settlements = 1)
  /\ prep.worker = "running" => splitPc = "worker"

\* the worker reported an error, a late event of it followed, and the local
\* algorithm produced chunks
C29_FellBackAfterWorkerError ==
  /\ SplitDone
  /\ prep.outcome = "error"
  /\ prep.late > 0
  /\ Len(segments) > 1


(***************************************************************************)
(* The raw transcript of an edited run, checked under Spec.                *)
(***************************************************************************)
\* C30 (as stated): a run that transcribes and then edits audio with the
\* keepOriginal setting off never writes the raw transcript file, whichever
\* entry path started it.
C30_NoRawFileWhenKeepOriginalOff ==
  ~(/\ task.kind = "audio"
    /\ task.pc = "saveRaw"
    /\ task.shouldEdit
    /\ ~task.keepOriginal)


(***************************************************************************)
(* The progress snapshots of a transcription, checked under GemSpec.       *)
(***************************************************************************)
\* C31 (as stated): once transcribe() has resolved, exactly one `done`
\* snapshot was emitted and it is the latest snapshot, for either provider
\* and every number of chunks.
C31_DoneEmittedOnceAndLast ==
  tpc = "resolved" => (emitted.done = 1 /\ emitted.last = "done")


(***************************************************************************)
(* Starting chunks after a Gemini chunk failed, checked under GemSpec.     *)
(***************************************************************************)
\* a chunk operation of the Gemini worker has failed for good: the worker is
\* in its finally block or has thrown, with an error that is no cancellation
ChunkFailedForGood ==
  \E r \in Runners :
    /\ runners[r].pc \in {"delete", "threw"}
    /\ runners[r].err /= NoError
    /\ ~isAbortError(runners[r].err)

\* C32 (as stated): once a chunk operation of the Gemini path has failed for
\* good, no chunk that was not started yet is started, even while the failed
\* chunk's delete request is pending.
C32_NoStartAfterFailure ==
  [][(tProvider = "gemini" /\ ChunkFailedForGood)
     => \A k \in ChunkIndexes : attempts[k] = 0 => attempts'[k] = 0]_vars


(***************************************************************************)
(* The two preprocessing executors, checked under TrimSpec.                *)
(***************************************************************************)
\* the encoded chunks of the in-process executor
LocalChunks ==
  [k \in 1 .. Len(segments) |->
     float32ToWavBuffer(SegmentSamples(pcm, segments[k]))]

\* the encoded chunks the worker script posts for the same input
WorkerChunks ==
  LET data == WorkerData(rawData, opts)
      segs == SplitAll(data, opts, 0, <<>>)
  IN [k \in 1 .. Len(segs) |->
        WorkerFloat32ToWavBuffer(SubSeq(data, segs[k].from + 1, segs[k].to))]

\* processLocally has run to its end
LocallyDone == SplitDone /\ prep.outcome /= "result"

TextLines == {SplitLines(splitter.text)[k] :
                k \in 1 .. Len(SplitLines(splitter.text))}

\* C34 (as stated): every chunk splitTextIntoChunks returns has at most
\* maxLength characters.
C34_ChunksWithinBudget ==
  splitter.pc = "returned"
    => \A k \in 1 .. Len(splitter.chunks) :
         Len(splitter.chunks[k]) <= splitter.maxLength

(***************************************************************************)
(* The Stage-2 results of a resolved edit, checked under SvcSpec.          *)
(***************************************************************************)
\* C35 (as stated): when editWithTwoStageStreaming resolves, every chunk's
\* position of the results holds non-empty text: the model's output for the
\* chunk or the chunk's raw text.
C35_NoEmptyChunkResult ==
  ed.pc = "resolved"
    => \A k \in TextChunkIndexes :
         k < eChunks
           => /\ ed.results[k + 1] /= <<>>
              /\ ed.results[k + 1] \in {TrimText(ed.outputs[k]), RawChunkText(k)}

(***************************************************************************)
(* The transcript of a run that goes on to edit, checked under Spec.       *)
(***************************************************************************)
\* processAudioBlob is past the raw transcript file and on its editing path
EditingBegun ==
  /\ task.kind = "audio"
  /\ task.shouldEdit
  /\ task.pc \notin {"idle", "transcribe", "saveRaw"}

\* C36 (as stated): when processAudioBlob begins editing, the transcript has
\* been saved to the raw transcript file.
C36_TranscriptSavedBeforeEditing ==
  EditingBegun => notices["noticeRawTranscriptSaved"] >= 1

(***************************************************************************)
(* What a run is classified as, checked under Spec.                        *)
(***************************************************************************)
\* C37 (as stated): a handler ends with the cancelled outcome only if the
\* run's signal has been aborted.
C37_CancelledOnlyIfAborted ==
  [][(task.pc /= "idle" /\ task'.pc = "idle" /\ outcome' = "cancelled")
     => aborted]_vars

(***************************************************************************)
(* The edited file after streamEditToFile, checked under WriterSpec.       *)
(***************************************************************************)
\* C38: once streamEditToFile has returned, the edited file holds the final
\* text, no timer of the stream writer is pending, its chain of updates is
\* empty and no updateText call is in flight; at no time are two updateText
\* calls in flight.
C38_FinalTextStays ==
  /\ Len(writer.writing) <= 1
  /\ writer.pc = "returned"
       => /\ writer.file = writer.finalText
          /\ writer.finalText = writer.pushes
          /\ ~writer.timer
          /\ writer.queued = 0
          /\ ~writer.running
          /\ writer.writing = <<>>

\* streamEditToFile returned after a run in which the timer fired and a
\* partial text was written before the final note
C38_ReturnedAfterStreamedWrites ==
  /\ writer.pc = "returned"
  /\ writer.pushes >= 3
  /\ writer.streamed >= 1
  /\ writer.file = writer.finalText

(***************************************************************************)
(* The controller of a running task, checked under LifeSpec.               *)
(***************************************************************************)
\* C39 (as stated): from beginTask until the run's endTask the plugin's
\* activeTaskController is set, and it is the controller beginTask created.
C39_ControllerHeldUntilEndTask ==
  /\ [](task.pc /= "idle" => activeTaskController /= 0)
  /\ [][task.pc /= "idle" /\ task'.pc /= "idle"
        => activeTaskController' = activeTaskController]_vars

(***************************************************************************)
(* The passes of the split loop, checked under CutSpec.                    *)
(***************************************************************************)
\* the split point the pass at startSample finds (NoSplitPoint: none)
FoundSplitPoint ==
  findSilenceSplitPoint(pcm, Min(startSample + opts.maxSamples, Len(pcm)),
                        Len(pcm), opts.silenceWindowSamples,
                        opts.searchRangeSamples)

\* C40: the loop ends; each pass carves the candidate segment from
\* startSample to a later sample that is not beyond the buffer's end, the
\* next pass starts where it ended, a segment that is kept is that
\* candidate, and the loop ends at the buffer's end.
C40_SplitAdvancesAndEnds ==
  /\ <>SplitDone
  /\ [](SplitDone => startSample = Len(pcm))
  /\ [][/\ startSample' > startSample
        /\ startSample' <= Len(pcm)
        /\ \/ segments' = segments
           \/ segments' = Append(segments, [from |-> startSample,
                                            to |-> startSample'])]_vars

\* after some passes, a pass finds a silent window whose first sample is not
\* after the pass's start
C40_CutNotAfterStart ==
  /\ splitPc = "split"
  /\ startSample > 0
  /\ startSample < Len(pcm)
  /\ startSample + opts.maxSamples < Len(pcm)
  /\ FoundSplitPoint /= NoSplitPoint
  /\ FoundSplitPoint <= startSample
====
